---- MODULE Spec2Model ----
(***************************************************************************)
(* Converter registry / dispatcher (MarkItDown) and archive expander       *)
(* (ZipConverter) of markitdown-js.                                        *)
(*                                                                         *)
(* Strings the code inspects (file names, extensions) are sequences of     *)
(* one-character strings, so that path.extname, path.basename and          *)
(* toLowerCase are computed, not assumed.                                  *)
(***************************************************************************)
EXTENDS Integers, Sequences, FiniteSets, TLC

\* ------------------------------------------------------------------------
\* Bounds
\* ------------------------------------------------------------------------

\* number of converters registered by the caller after construction
MaxStubs == 1

\* ------------------------------------------------------------------------
\* Strings
\* ------------------------------------------------------------------------

DotZip == <<".", "z", "i", "p">>
DotTxt == <<".", "t", "x", "t">>
DotBin == <<".", "b", "i", "n">>
DotZipUpper == <<".", "Z", "I", "P">>
DotHtml == <<".", "h", "t", "m", "l">>

\* String.prototype.toLowerCase on one character
LowerChar(ch) ==
    CASE ch = "Z" -> "z"
      [] ch = "I" -> "i"
      [] ch = "P" -> "p"
      [] ch = "A" -> "a"
      [] ch = "D" -> "d"
      [] ch = "G" -> "g"
      [] ch = "H" -> "h"
      [] ch = "M" -> "m"
      [] ch = "N" -> "n"
      [] ch = "S" -> "s"
      [] ch = "T" -> "t"
      [] ch = "V" -> "v"
      [] ch = "W" -> "w"
      [] OTHER -> ch

\* String.prototype.toLowerCase
ToLower(s) == [i \in 1..Len(s) |-> LowerChar(s[i])]

\* position of the last "." of a name, 0 when there is none
LastDot(s) ==
    LET dots == {i \in 1..Len(s) : s[i] = "."}
    IN IF dots = {} THEN 0 ELSE CHOOSE i \in dots : \A j \in dots : j <= i

\* path.extname(name): from the last "." to the end; "" when the name has
\* no "." or only a leading one
ExtName(s) ==
    IF LastDot(s) <= 1 THEN <<>> ELSE SubSeq(s, LastDot(s), Len(s))

\* path.basename(name, suffix): the name without the suffix when it ends
\* with it (and is not equal to it)
BaseName(s, suffix) ==
    IF /\ Len(s) > Len(suffix)
       /\ SubSeq(s, Len(s) - Len(suffix) + 1, Len(s)) = suffix
    THEN SubSeq(s, 1, Len(s) - Len(suffix))
    ELSE s

\* mime.lookup("__placeholder" + ext): the media type of an extension,
\* NoMime (false) when the extension is unknown or empty
NoMime == [type |-> "false", subtype |-> "false"]

MimeLookup(ext) ==
    LET e == ToLower(ext)
    IN CASE e = DotTxt -> [type |-> "text", subtype |-> "plain"]
         [] e = DotZip -> [type |-> "application", subtype |-> "zip"]
         [] e = DotBin -> [type |-> "application", subtype |-> "octet-stream"]
         [] e = DotHtml -> [type |-> "text", subtype |-> "html"]
         [] OTHER -> NoMime

\* ------------------------------------------------------------------------
\* Converters
\* ------------------------------------------------------------------------

PRIORITY_SPECIFIC_FILE_FORMAT == 0
PRIORITY_GENERIC_FILE_FORMAT == 10

\* priorities a caller gives a converter: the two class constants and one
\* value in between
Priorities == {PRIORITY_SPECIFIC_FILE_FORMAT, 5, PRIORITY_GENERIC_FILE_FORMAT}

\* built-in converter classes of the model, and the caller's subclasses of
\* DocumentConverter: "Any" returns a result for every extension, "Bad"
\* throws for .txt and .bin and is not applicable otherwise
BuiltinKinds == {"PlainText", "Zip"}
StubKinds == {"Any", "Bad"}

\* new PlainTextConverter(), new ZipConverter(): ids 1 and 2
PlainTextId == 1
ZipId == 2
NumBuiltins == 2

\* ------------------------------------------------------------------------
\* Files
\* ------------------------------------------------------------------------

File(name, readable) ==
    [name |-> name, isDir |-> FALSE, readable |-> readable, children |-> <<>>]

Dir(name, children) ==
    [name |-> name, isDir |-> TRUE, readable |-> TRUE, children |-> children]

\* archive a.zip: hi.txt and an entry of an unrecognised extension
TreeA == << File(<<"h", "i", ".", "t", "x", "t">>, TRUE),
            File(<<"x", ".", "b", "i", "n">>, TRUE) >>

\* archive b.zip: a directory with a nested directory, a nested archive
\* and a text entry
TreeB == << Dir(<<"d">>,
                << File(<<"n", ".", "t", "x", "t">>, TRUE),
                   Dir(<<"e">>, << File(<<"m", ".", "t", "x", "t">>, TRUE) >>) >>),
            File(<<"i", ".", "z", "i", "p">>, TRUE),
            File(<<"z", ".", "t", "x", "t">>, TRUE) >>

\* archive c.zip: a text entry, a text entry that cannot be read (readFile
\* rejects), and a text entry
TreeC == << File(<<"k", ".", "t", "x", "t">>, TRUE),
            File(<<"u", ".", "t", "x", "t">>, FALSE),
            File(<<"z", ".", "t", "x", "t">>, TRUE) >>

\* the sources a caller converts: three archives and a text file
Sources ==
    { [name |-> <<"a", ".", "z", "i", "p">>, isArchive |-> TRUE, tree |-> TreeA],
      [name |-> <<"b", ".", "z", "i", "p">>, isArchive |-> TRUE, tree |-> TreeB],
      [name |-> <<"c", ".", "z", "i", "p">>, isArchive |-> TRUE, tree |-> TreeC],
      [name |-> <<"n", ".", "t", "x", "t">>, isArchive |-> FALSE, tree |-> <<>>] }

Exts == {DotZip, DotTxt, DotBin}

\* ------------------------------------------------------------------------
\* Paths and results
\* ------------------------------------------------------------------------

\* a path is a sequence of segments; path.join(p, name) appends one
PathJoin(p, name) == Append(p, name)

\* path.join(path.dirname(localPath), `extracted_${path.basename(localPath, ".zip")}`)
ExtractionDir(localPath) ==
    PathJoin(SubSeq(localPath, 1, Len(localPath) - 1),
             <<"extracted_">> \o BaseName(localPath[Len(localPath)], DotZip))

\* DocumentConverterResult, an object { title, textContent }.  kind tells
\* which code built textContent: "text" the decoded file (PlainText), "stub"
\* a caller's converter, "zip" the aggregate of an archive, "error" one of
\* the "[ERROR] ..." texts of ZipConverter.
NoConv == 0
NoMsg == <<"none", 0>>
MkResult(kind, by, of, sections, msg) ==
    [kind |-> kind, by |-> by, of |-> of, sections |-> sections, msg |-> msg]

\* what a converter other than ZipConverter does with (localPath, ext):
\* "null" (not applicable), "result" or "throw"
ConvOutcome(kind, ext, readable) ==
    CASE kind = "PlainText" ->
            LET contentType == MimeLookup(ext)
            IN IF contentType = NoMime THEN "null"
               ELSE IF ~(contentType.type = "text"
                         \/ contentType = [type |-> "application", subtype |-> "json"])
               THEN "null"
               ELSE IF readable THEN "result" ELSE "throw"
      [] kind = "Any" -> "result"
      [] kind = "Bad" -> IF ToLower(ext) \in {DotTxt, DotBin} THEN "throw" ELSE "null"
      [] kind = "Zip" -> IF ToLower(ext) # DotZip THEN "null" ELSE "zip"

\* the result object of a converter other than ZipConverter
ConvResult(c, kind, localPath) ==
    IF kind = "PlainText"
    THEN MkResult("text", c, localPath, <<>>, NoMsg)
    ELSE MkResult("stub", c, localPath, <<>>, NoMsg)

\* the message of the error a converter throws
ConvError(c) == <<"converter failed", c>>

\* ------------------------------------------------------------------------
\* Registry
\* ------------------------------------------------------------------------

\* Array.prototype.push in the place of unshift
UnshiftAsPush(list, c) == list \o <<c>>

\* Array.prototype.unshift
Unshift(list, c) == <<c>> \o list

\* insert c behind every element whose priority is not larger
InsertByPriority(sorted, c, convs) ==
    LET le == {i \in 1..Len(sorted) :
                  convs[sorted[i]].priority <= convs[c].priority}
        k == IF le = {} THEN 0 ELSE CHOOSE i \in le : \A j \in le : j <= i
        \* the comparator makes the sort place c behind the last element it
        \* does not precede; with sorted ascending that is position k
    IN SubSeq(sorted, 1, k) \o <<c>> \o SubSeq(sorted, k + 1, Len(sorted))

\* the copy without the sort
SortByPriorityUnsorted(list, convs) == list

\* [...list].sort((a, b) => a.priority - b.priority): a stable sort
RECURSIVE SortByPriority(_, _)
SortByPriority(list, convs) ==
    IF list = <<>> THEN <<>>
    ELSE InsertByPriority(SortByPriority(SubSeq(list, 1, Len(list) - 1), convs),
                          list[Len(list)], convs)

\* _determineExtensions: options.fileExtension || path.extname(filePath)
DetermineExtensions(filePath, fileExtension) ==
    LET ext == IF fileExtension # <<>> THEN fileExtension
               ELSE ExtName(filePath[Len(filePath)])
    IN IF ext # <<>> THEN <<ext>> ELSE <<>>

\* ------------------------------------------------------------------------
\* State
\* ------------------------------------------------------------------------

VARIABLES
    converters,        \* the converter objects constructed so far: kind, priority
    registry,          \* MarkItDown._pageConverters, a list of converter ids
    dirs,              \* the extraction directories that exist on disk
    pc,                \* position of the conversion in flight
    req,               \* its arguments: source, path, extensions, options
    sortedConverters,  \* _convert: the sorted copy
    extIdx,            \* _convert: position in extensions
    convIdx,           \* _convert: position in sortedConverters
    log,               \* converter invocations of _convert, in order
    outcome,           \* how _convert settled
    zdir,              \* ZipConverter.convert: extractionDir
    zstack,            \* processDirectory: the calls in progress
    zci,               \* processDirectory: position in parentConverters
    mdContent,         \* the sub-headings and texts collected so far
    zlog,              \* converter invocations of processDirectory, in order
    zerr,              \* the message of the error ZipConverter.convert caught
    zret               \* how ZipConverter.convert ended

rvars == <<converters, registry>>
dvars == <<req, sortedConverters, extIdx, convIdx, log, outcome>>
zvars == <<zdir, zstack, zci, mdContent, zlog, zerr, zret>>
cvars == <<converters, registry, dirs, pc, req, sortedConverters, extIdx,
          convIdx, log, outcome, zdir, zstack, zci, mdContent, zlog, zerr,
          zret>>

\* CustomMarkdownConverter (customMarkdown.ts)
VARIABLES
    rules,             \* turndownService.rules, the active rule list, front first
    keepInlineImages,  \* turndownService.options.keepInlineImages
    added,             \* the rules passed to addRule after construction, in call order
    mdNode,            \* the node last rendered
    mdOut              \* what its rule's replacement returned

mvars == <<rules, keepInlineImages, added, mdNode, mdOut>>

\* WikipediaConverter.parseSections / generateMarkdown (wikipedia.ts)
VARIABLES
    wpc,               \* position of the conversion: "idle", "walk", "parsed", "done"
    wroot,             \* mainContent.childNodes
    wpos,              \* forEach: the child visited next
    sections,          \* parseSections: sections
    currentSection,    \* parseSections: currentSection
    inLeadSection,     \* parseSections: inLeadSection
    currentHtml,       \* parseSections: currentHtml, the outerHTML pieces buffered
    markdown,          \* generateMarkdown: the section parts of the document
    toc                \* generateTableOfContents: the entries of the list

wvars == <<wpc, wroot, wpos, sections, currentSection, inLeadSection,
           currentHtml, markdown, toc>>

\* YouTubeConverter.convert / retryOperation
VARIABLES
    ypc,               \* position of the conversion
    yin,               \* its input: the page's title, the ids found in options.url
    attempt,           \* retryOperation: attempt
    lastError,         \* retryOperation: lastError
    transcriptText,    \* convert: transcriptText
    ylog,              \* the lookups made and the delays slept, in order
    yret               \* what convert returned

yvars == <<ypc, yin, attempt, lastError, transcriptText, ylog, yret>>

\* AudioConverter, VideoConverter, ImageConverter (MediaConverter)
VARIABLES
    epc,               \* position of the media conversion
    ein,               \* its input: converter, fileExtension, llmCall, the tools' answers
    exif,              \* the shared exiftool process: "ready" or "ended"
    etmp,              \* VideoConverter: whether the file at tempPath exists
    ecalls,            \* calls of options.llmCall made by this conversion
    emd,               \* mdContent
    eret               \* how convert settled

evars == <<epc, ein, exif, etmp, ecalls, emd, eret>>

\* MarkItDown.convert on a URL, a local path or a read stream
VARIABLES
    spc,               \* position of the call
    sreq,              \* its arguments: the source, options.fileExtension
    stmp,              \* the temporary file: "none", "named", "exists", "deleted"
    sfloat,            \* convertStream: the dispatches started and not awaited
    sinv,              \* the converter invocations the call has made, in order
    sres               \* how the call settled

svars == <<spc, sreq, stmp, sfloat, sinv, sres>>

\* two ZipConverter.convert calls in flight on one file system
VARIABLES
    ppc,               \* position of each call
    parch,             \* its archive: localPath and the entries it holds
    plist,             \* processDirectory: files, what readdirSync returned
    pidx,              \* processDirectory: position in files
    pcontent,          \* the entries whose text the call has collected
    pret,              \* how the call ended: "content" or "failed"
    pdirs,             \* the directories that exist on disk
    pfiles             \* the files that exist on disk, as paths

pvars == <<ppc, parch, plist, pidx, pcontent, pret, pdirs, pfiles>>

\* one file converted directly and as an entry of an archive
VARIABLES
    bpc,               \* position: "idle", "direct", "archive", "entry", "done"
    bcfg,              \* the instance and the request: llmCall, styleMap, url
    bfile,             \* the file: which converter applies to it
    bopts,             \* the options the converter was last called with
    bdirect,           \* the text of the file converted directly
    bentry             \* the text of the file converted as an archive entry

bvars == <<bpc, bcfg, bfile, bopts, bdirect, bentry>>

\* the state of the components other than registry, dispatch and archive
xvars == <<mvars, wvars, yvars, evars, svars, pvars, bvars>>

vars == <<cvars, xvars>>

NoSource == [name |-> <<>>, isArchive |-> FALSE, tree |-> <<>>]
NoReq == [src |-> NoSource, path |-> <<>>, exts |-> <<>>, hasParent |-> FALSE]
NoOutcome == [type |-> "none", value |-> MkResult("none", NoConv, <<>>, <<>>, NoMsg)]
NoResult == MkResult("none", NoConv, <<>>, <<>>, NoMsg)

\* no node rendered yet, nothing returned yet
NoNode == [nodeName |-> <<>>, parent |-> <<>>, cls |-> "none",
           content |-> <<>>, href |-> <<>>, hasHref |-> FALSE,
           title |-> <<>>, alt |-> <<>>, src |-> <<>>,
           width |-> <<>>, height |-> <<>>]
NoOut == [form |-> "none", rule |-> "none", seq |-> 0, level |-> 0,
          content |-> <<>>, href |-> <<>>, title |-> <<>>, size |-> <<>>]

\* no CustomMarkdownConverter constructed
MdIdle ==
    /\ rules = <<>>
    /\ keepInlineImages = [isArray |-> TRUE, items |-> {}]
    /\ added = <<>>
    /\ mdNode = NoNode
    /\ mdOut = NoOut

\* a Section: level and id are optional fields
Section(title, hasLevel, level, hasId, id, content) ==
    [title |-> title, hasLevel |-> hasLevel, level |-> level,
     hasId |-> hasId, id |-> id, content |-> content]

\* { title: "", content: "" }
EmptySection == Section(<<>>, FALSE, 0, FALSE, <<>>, <<>>)

\* no Wikipedia page being converted
WikiIdle ==
    /\ wpc = "idle"
    /\ wroot = <<>>
    /\ wpos = 0
    /\ sections = <<>>
    /\ currentSection = EmptySection
    /\ inLeadSection = TRUE
    /\ currentHtml = <<>>
    /\ markdown = <<>>
    /\ toc = <<>>

\* no YouTube page being converted
NoYtInput == [hasTitle |-> FALSE, videoId |-> <<>>, shortId |-> <<>>]
NoYtResult == [returned |-> FALSE, title |-> <<>>, parts |-> <<>>]

YtIdle ==
    /\ ypc = "idle"
    /\ yin = NoYtInput
    /\ attempt = 0
    /\ lastError = <<>>
    /\ transcriptText = <<>>
    /\ ylog = <<>>
    /\ yret = NoYtResult

\* no media file being converted
NoMediaInput == [conv |-> "none", ext |-> <<>>, llm |-> "absent",
                 capable |-> FALSE, meta |-> "none"]
NoMediaResult == [kind |-> "none", text |-> <<>>]

MediaIdle ==
    /\ epc = "idle"
    /\ ein = NoMediaInput
    /\ exif = "ready"
    /\ etmp = FALSE
    /\ ecalls = 0
    /\ emd = <<>>
    /\ eret = NoMediaResult

\* no convert call on a source
NoSrcReq == [kind |-> "none", path |-> <<>>, readable |-> FALSE, fileExtension |-> <<>>]
Settled(type, err, by) == [type |-> type, err |-> err, by |-> by]
NotSettled == Settled("none", "none", NoConv)

SrcIdle ==
    /\ spc = "idle"
    /\ sreq = NoSrcReq
    /\ stmp = "none"
    /\ sfloat = <<>>
    /\ sinv = <<>>
    /\ sres = NotSettled

Procs == {1, 2}

\* no ZipConverter.convert call in flight, an empty disk
NoArchive == [path |-> <<>>, entries |-> <<>>]

ParIdle ==
    /\ ppc = [p \in Procs |-> "idle"]
    /\ parch = [p \in Procs |-> NoArchive]
    /\ plist = [p \in Procs |-> <<>>]
    /\ pidx = [p \in Procs |-> 0]
    /\ pcontent = [p \in Procs |-> <<>>]
    /\ pret = [p \in Procs |-> "none"]
    /\ pdirs = {}
    /\ pfiles = {}

\* no file converted
NoBagCfg == [llmCall |-> FALSE, styleMap |-> FALSE, url |-> FALSE]
NoOptions == [fileExtension |-> <<>>, parentConverters |-> FALSE,
              requestsSession |-> FALSE, llmCall |-> FALSE,
              styleMap |-> FALSE, url |-> FALSE]
NoText == [kind |-> "none", parts |-> <<>>]

BagIdle ==
    /\ bpc = "idle"
    /\ bcfg = NoBagCfg
    /\ bfile = "none"
    /\ bopts = NoOptions
    /\ bdirect = NoText
    /\ bentry = NoText

\* the constructor: _pageConverters = [] and _registerDefaultConverters,
\* reduced to PlainTextConverter (registered first) and ZipConverter
CoreInit ==
    /\ converters = << [kind |-> "PlainText", priority |-> PRIORITY_GENERIC_FILE_FORMAT],
                       [kind |-> "Zip", priority |-> PRIORITY_SPECIFIC_FILE_FORMAT] >>
    /\ registry = Unshift(Unshift(<<>>, PlainTextId), ZipId)
    /\ dirs = {}
    /\ pc = "idle"
    /\ req = NoReq
    /\ sortedConverters = <<>>
    /\ extIdx = 0
    /\ convIdx = 0
    /\ log = <<>>
    /\ outcome = NoOutcome
    /\ zdir = <<>>
    /\ zstack = <<>>
    /\ zci = 0
    /\ mdContent = <<>>
    /\ zlog = <<>>
    /\ zerr = NoMsg
    /\ zret = "none"

\* a MarkItDown instance, no conversion in flight, the other components idle
Init ==
    /\ CoreInit
    /\ MdIdle
    /\ WikiIdle
    /\ YtIdle
    /\ MediaIdle
    /\ SrcIdle
    /\ ParIdle
    /\ BagIdle

\* ------------------------------------------------------------------------
\* Registration and priorities
\* ------------------------------------------------------------------------

\* registerConverter(new Stub(priority))
RegisterConverter(kind, priority) ==
    /\ pc = "idle"
    /\ Len(converters) < NumBuiltins + MaxStubs
    /\ converters' = Append(converters, [kind |-> kind, priority |-> priority])
    /\ registry' = Unshift(registry, Len(converters) + 1)
    /\ UNCHANGED <<dirs, pc>>
    /\ UNCHANGED dvars
    /\ UNCHANGED zvars
    /\ UNCHANGED xvars

\* converter.priority = value
SetPriority(c, value) ==
    /\ pc = "idle"
    /\ c \in 1..Len(converters)
    /\ converters[c].priority # value
    /\ converters' = [converters EXCEPT ![c].priority = value]
    /\ UNCHANGED <<registry, dirs, pc>>
    /\ UNCHANGED dvars
    /\ UNCHANGED zvars
    /\ UNCHANGED xvars

\* ------------------------------------------------------------------------
\* Dispatch: MarkItDown.convert, convertLocal, _convert
\* ------------------------------------------------------------------------

\* _convert sorting this._pageConverters itself, not a copy
DispatchSortsInPlace(src, exts, hasParent) ==
    /\ pc = "idle"
    /\ req' = [src |-> src, path |-> <<src.name>>, exts |-> exts,
               hasParent |-> hasParent]
    /\ registry' = SortByPriority(registry, converters)
    /\ sortedConverters' = SortByPriority(registry, converters)
    /\ extIdx' = 1
    /\ convIdx' = 1
    /\ log' = <<>>
    /\ outcome' = NoOutcome
    /\ pc' = "convert"
    /\ UNCHANGED <<dirs, converters>>
    /\ UNCHANGED zvars
    /\ UNCHANGED xvars

\* _convert(filePath, extensions, options): sort a copy of the registry and
\* enter the loops
Dispatch(src, exts, hasParent) ==
    /\ pc = "idle"
    /\ req' = [src |-> src, path |-> <<src.name>>, exts |-> exts,
               hasParent |-> hasParent]
    /\ sortedConverters' = SortByPriority(registry, converters)
    /\ extIdx' = 1
    /\ convIdx' = 1
    /\ log' = <<>>
    /\ outcome' = NoOutcome
    /\ pc' = "convert"
    /\ UNCHANGED <<dirs>>
    /\ UNCHANGED rvars
    /\ UNCHANGED zvars
    /\ UNCHANGED xvars

\* MarkItDown.convert(path, { fileExtension }): sets options.parentConverters
\* and calls convertLocal
Convert(src, fileExtension) ==
    Dispatch(src, DetermineExtensions(<<src.name>>, fileExtension), TRUE)

\* convertLocal(path, { fileExtension }) called directly: the options carry
\* no parentConverters
ConvertLocal(src, fileExtension) ==
    Dispatch(src, DetermineExtensions(<<src.name>>, fileExtension), FALSE)

\* _convert with two candidate extensions
ConvertExtensions(src, exts) ==
    Dispatch(src, exts, TRUE)

CurExt == req.exts[extIdx]

\* the inner loop reading the registry as it is now, sorted again, in the
\* place of the copy made when the dispatch started
CurConvLive ==
    LET live == SortByPriority(registry, converters)
    IN live[IF convIdx <= Len(live) THEN convIdx ELSE Len(live)]

CurConv == sortedConverters[convIdx]
InLoop == pc = "convert" /\ extIdx <= Len(req.exts)

\* the loop variables after the body of the inner loop ends without return
NextExtIdx == IF convIdx < Len(sortedConverters) THEN extIdx ELSE extIdx + 1
NextConvIdx == IF convIdx < Len(sortedConverters) THEN convIdx + 1 ELSE 1

\* the converter returned an object and the loop goes on
InvokeResultContinues ==
    /\ InLoop
    /\ ConvOutcome(converters[CurConv].kind, CurExt, TRUE) = "result"
    /\ log' = Append(log, [ext |-> extIdx, conv |-> CurConv, out |-> "result"])
    /\ extIdx' = NextExtIdx
    /\ convIdx' = NextConvIdx
    /\ UNCHANGED <<dirs, pc, req, sortedConverters, outcome>>
    /\ UNCHANGED rvars
    /\ UNCHANGED zvars
    /\ UNCHANGED xvars

\* the converter returned an object: if (result) return result
InvokeResult ==
    /\ InLoop
    /\ ConvOutcome(converters[CurConv].kind, CurExt, TRUE) = "result"
    /\ log' = Append(log, [ext |-> extIdx, conv |-> CurConv, out |-> "result"])
    /\ outcome' = [type |-> "result",
                   value |-> ConvResult(CurConv, converters[CurConv].kind, req.path)]
    /\ pc' = "done"
    /\ UNCHANGED <<dirs, req, sortedConverters, extIdx, convIdx>>
    /\ UNCHANGED rvars
    /\ UNCHANGED zvars
    /\ UNCHANGED xvars

\* the converter returned null: next converter
InvokeNull ==
    /\ InLoop
    /\ ConvOutcome(converters[CurConv].kind, CurExt, TRUE) = "null"
    /\ log' = Append(log, [ext |-> extIdx, conv |-> CurConv, out |-> "null"])
    /\ extIdx' = NextExtIdx
    /\ convIdx' = NextConvIdx
    /\ UNCHANGED <<dirs, pc, req, sortedConverters, outcome>>
    /\ UNCHANGED rvars
    /\ UNCHANGED zvars
    /\ UNCHANGED xvars

\* the converter threw and nothing catches it: _convert rejects
InvokeCatchRethrows ==
    /\ InLoop
    /\ ConvOutcome(converters[CurConv].kind, CurExt, TRUE) = "throw"
    /\ log' = Append(log, [ext |-> extIdx, conv |-> CurConv, out |-> "throw"])
    /\ outcome' = [type |-> "threw", value |-> NoResult]
    /\ pc' = "done"
    /\ UNCHANGED <<dirs, req, sortedConverters, extIdx, convIdx>>
    /\ UNCHANGED rvars
    /\ UNCHANGED zvars
    /\ UNCHANGED xvars

\* the converter threw: catch (error) { console.error(...) }, next converter
InvokeCatch ==
    /\ InLoop
    /\ ConvOutcome(converters[CurConv].kind, CurExt, TRUE) = "throw"
    /\ log' = Append(log, [ext |-> extIdx, conv |-> CurConv, out |-> "throw"])
    /\ extIdx' = NextExtIdx
    /\ convIdx' = NextConvIdx
    /\ UNCHANGED <<dirs, pc, req, sortedConverters, outcome>>
    /\ UNCHANGED rvars
    /\ UNCHANGED zvars
    /\ UNCHANGED xvars

\* the loops ended and _convert returns null
NoSuitableConverterReturnsNull ==
    /\ pc = "convert"
    /\ extIdx > Len(req.exts)
    /\ outcome' = [type |-> "result", value |-> NoResult]
    /\ pc' = "done"
    /\ UNCHANGED <<dirs, req, sortedConverters, extIdx, convIdx, log>>
    /\ UNCHANGED rvars
    /\ UNCHANGED zvars
    /\ UNCHANGED xvars

\* the loops ended: throw new Error("Cannot convert ... No suitable converter found.")
NoSuitableConverter ==
    /\ pc = "convert"
    /\ extIdx > Len(req.exts)
    /\ outcome' = [type |-> "unsupported", value |-> NoResult]
    /\ pc' = "done"
    /\ UNCHANGED <<dirs, req, sortedConverters, extIdx, convIdx, log>>
    /\ UNCHANGED rvars
    /\ UNCHANGED zvars
    /\ UNCHANGED xvars

\* the caller has the outcome; the next conversion can start
Finish ==
    /\ pc = "done"
    /\ pc' = "idle"
    /\ req' = NoReq
    /\ sortedConverters' = <<>>
    /\ extIdx' = 0
    /\ convIdx' = 0
    /\ log' = <<>>
    /\ outcome' = NoOutcome
    /\ zdir' = <<>>
    /\ zstack' = <<>>
    /\ zci' = 0
    /\ mdContent' = <<>>
    /\ zlog' = <<>>
    /\ zerr' = NoMsg
    /\ zret' = "none"
    /\ UNCHANGED <<dirs>>
    /\ UNCHANGED rvars
    /\ UNCHANGED xvars

\* ------------------------------------------------------------------------
\* Archive expansion: ZipConverter.convert, processDirectory
\* ------------------------------------------------------------------------

\* options.parentConverters || []
ParentConverters == IF req.hasParent THEN registry ELSE <<>>

ZipInvoked ==
    /\ InLoop
    /\ ConvOutcome(converters[CurConv].kind, CurExt, TRUE) = "zip"

\* the texts ZipConverter.convert returns
NoConvertersText(localPath) ==
    MkResult("error", ZipId, localPath, <<>>, <<"no converters available", 0>>)
FailedText(localPath, msg) ==
    MkResult("error", ZipId, localPath, <<>>, msg)
ContentText(localPath, secs) ==
    MkResult("zip", ZipId, localPath, secs, NoMsg)

\* one call of processDirectory(extractionDir, parentConverters, parentDirName)
Frame(dir, entries, prefix) ==
    [dir |-> dir, entries |-> entries, idx |-> 1, prefix |-> prefix]

\* parentDirName ? parentDirName + "/" + name : name
WithParent(prefix, name) ==
    IF prefix # <<>> THEN prefix \o <<"/">> \o name ELSE name

\* if (!parentConverters.length) return { textContent: "[ERROR] No converters ..." }
\* and _convert returns that result
ZipNoConverters ==
    /\ ZipInvoked
    /\ Len(ParentConverters) = 0
    /\ zret' = "noconverters"
    /\ log' = Append(log, [ext |-> extIdx, conv |-> CurConv, out |-> "result"])
    /\ outcome' = [type |-> "result", value |-> NoConvertersText(req.path)]
    /\ pc' = "done"
    /\ UNCHANGED <<dirs, req, sortedConverters, extIdx, convIdx>>
    /\ UNCHANGED <<zdir, zstack, zci, mdContent, zlog, zerr>>
    /\ UNCHANGED rvars
    /\ UNCHANGED xvars

\* set up extractionDir and mdContent, start unzipper.Extract
ZipBegin ==
    /\ ZipInvoked
    /\ Len(ParentConverters) # 0
    /\ zdir' = ExtractionDir(req.path)
    /\ mdContent' = <<>>
    /\ pc' = "extract"
    /\ UNCHANGED <<zstack, zci, zlog, zerr, zret>>
    /\ UNCHANGED <<dirs>>
    /\ UNCHANGED dvars
    /\ UNCHANGED rvars
    /\ UNCHANGED xvars

\* the extraction promise resolves: every entry is on disk;
\* processDirectory(extractionDir, parentConverters) is called
ZipExtractOk ==
    /\ pc = "extract"
    /\ req.src.isArchive
    /\ dirs' = dirs \cup {zdir}
    /\ zstack' = <<Frame(zdir, req.src.tree, <<>>)>>
    /\ zci' = 1
    /\ pc' = "walk"
    /\ UNCHANGED <<zdir, mdContent, zlog, zerr, zret>>
    /\ UNCHANGED dvars
    /\ UNCHANGED rvars
    /\ UNCHANGED xvars

\* the extraction promise rejects (not an archive, a damaged entry, a write
\* error), before or after unzipper created the directory
ZipExtractFail(dirCreated) ==
    /\ pc = "extract"
    /\ dirs' = IF dirCreated THEN dirs \cup {zdir} ELSE dirs
    /\ zerr' = <<"extraction failed", 0>>
    /\ pc' = "catch"
    /\ UNCHANGED <<zdir, zstack, zci, mdContent, zlog, zret>>
    /\ UNCHANGED dvars
    /\ UNCHANGED rvars
    /\ UNCHANGED xvars

Top == zstack[Len(zstack)]
AtEntry == pc = "walk" /\ Top.idx <= Len(Top.entries)
Entry == Top.entries[Top.idx]
AtFile == AtEntry /\ ~Entry.isDir
NextEntry == [zstack EXCEPT ![Len(zstack)].idx = @ + 1]

\* file.isDirectory(): the recursive call, then continue
ZipEnterDir ==
    /\ AtEntry
    /\ Entry.isDir
    /\ zstack' = Append(NextEntry,
                        Frame(PathJoin(Top.dir, Entry.name), Entry.children,
                              WithParent(Top.prefix, Entry.name)))
    /\ zci' = 1
    /\ UNCHANGED <<zdir, mdContent, zlog, zerr, zret>>
    /\ UNCHANGED <<dirs, pc>>
    /\ UNCHANGED dvars
    /\ UNCHANGED rvars
    /\ UNCHANGED xvars

\* the for loop over files ended: return mdContent to the calling
\* processDirectory, or to convert
ZipLeaveDir ==
    /\ pc = "walk"
    /\ Top.idx > Len(Top.entries)
    /\ zstack' = SubSeq(zstack, 1, Len(zstack) - 1)
    /\ zci' = 1
    /\ pc' = IF Len(zstack) = 1 THEN "cleanup" ELSE "walk"
    /\ UNCHANGED <<zdir, mdContent, zlog, zerr, zret>>
    /\ UNCHANGED <<dirs>>
    /\ UNCHANGED dvars
    /\ UNCHANGED rvars
    /\ UNCHANGED xvars

EntryConv == ParentConverters[zci]
EntryPath == PathJoin(Top.dir, Entry.name)
AtConverter == AtFile /\ zci <= Len(ParentConverters)

\* without the instanceof test: ZipConverter.convert runs on the entry and
\* its text is added under the entry's sub-heading
ZipSkipSelfExpands ==
    /\ AtConverter
    /\ converters[EntryConv].kind = "Zip"
    /\ zlog' = Append(zlog, [path |-> PathJoin(Top.dir, Entry.name),
                              conv |-> EntryConv, out |-> "result"])
    /\ mdContent' = Append(mdContent,
                           [heading |-> WithParent(Top.prefix, Entry.name),
                            text |-> ContentText(PathJoin(Top.dir, Entry.name), <<>>)])
    /\ zstack' = NextEntry
    /\ zci' = 1
    /\ UNCHANGED <<zdir, zerr, zret>>
    /\ UNCHANGED <<dirs, pc>>
    /\ UNCHANGED dvars
    /\ UNCHANGED rvars
    /\ UNCHANGED xvars

\* if (converter instanceof ZipConverter) continue
ZipSkipSelf ==
    /\ AtConverter
    /\ converters[EntryConv].kind = "Zip"
    /\ zci' = zci + 1
    /\ UNCHANGED <<zdir, zstack, mdContent, zlog, zerr, zret>>
    /\ UNCHANGED <<dirs, pc>>
    /\ UNCHANGED dvars
    /\ UNCHANGED rvars
    /\ UNCHANGED xvars

EntryOutcome ==
    ConvOutcome(converters[EntryConv].kind, ExtName(Entry.name), Entry.readable)

\* the converter returned an object: add the sub-heading and the text, break
ZipEntryResult ==
    /\ AtConverter
    /\ converters[EntryConv].kind # "Zip"
    /\ EntryOutcome = "result"
    /\ zlog' = Append(zlog, [path |-> EntryPath, conv |-> EntryConv, out |-> "result"])
    /\ mdContent' = Append(mdContent,
                           [heading |-> WithParent(Top.prefix, Entry.name),
                            text |-> ConvResult(EntryConv, converters[EntryConv].kind,
                                                EntryPath)])
    /\ zstack' = NextEntry
    /\ zci' = 1
    /\ UNCHANGED <<zdir, zerr, zret>>
    /\ UNCHANGED <<dirs, pc>>
    /\ UNCHANGED dvars
    /\ UNCHANGED rvars
    /\ UNCHANGED xvars

\* the converter returned null: next converter
ZipEntryNull ==
    /\ AtConverter
    /\ converters[EntryConv].kind # "Zip"
    /\ EntryOutcome = "null"
    /\ zlog' = Append(zlog, [path |-> EntryPath, conv |-> EntryConv, out |-> "null"])
    /\ zci' = zci + 1
    /\ UNCHANGED <<zdir, zstack, mdContent, zerr, zret>>
    /\ UNCHANGED <<dirs, pc>>
    /\ UNCHANGED dvars
    /\ UNCHANGED rvars
    /\ UNCHANGED xvars

\* the converter threw: nothing in processDirectory catches it, the
\* rejection reaches the catch of convert
ZipEntryThrow ==
    /\ AtConverter
    /\ converters[EntryConv].kind # "Zip"
    /\ EntryOutcome = "throw"
    /\ zlog' = Append(zlog, [path |-> EntryPath, conv |-> EntryConv, out |-> "throw"])
    /\ zerr' = ConvError(EntryConv)
    /\ pc' = "catch"
    /\ UNCHANGED <<zdir, zstack, zci, mdContent, zret>>
    /\ UNCHANGED <<dirs>>
    /\ UNCHANGED dvars
    /\ UNCHANGED rvars
    /\ UNCHANGED xvars

\* the loop over parentConverters ended without a result: next file
ZipEntryUnconverted ==
    /\ AtFile
    /\ zci > Len(ParentConverters)
    /\ zstack' = NextEntry
    /\ zci' = 1
    /\ UNCHANGED <<zdir, mdContent, zlog, zerr, zret>>
    /\ UNCHANGED <<dirs, pc>>
    /\ UNCHANGED dvars
    /\ UNCHANGED rvars
    /\ UNCHANGED xvars

\* fs.rmSync(extractionDir, { recursive: true, force: true }) and
\* return { textContent: mdContent.trim() }; _convert returns that result
ZipCleanupReturn ==
    /\ pc = "cleanup"
    /\ dirs' = dirs \ {zdir}
    /\ zret' = "content"
    /\ log' = Append(log, [ext |-> extIdx, conv |-> CurConv, out |-> "result"])
    /\ outcome' = [type |-> "result", value |-> ContentText(req.path, mdContent)]
    /\ pc' = "done"
    /\ UNCHANGED <<req, sortedConverters, extIdx, convIdx>>
    /\ UNCHANGED <<zdir, zstack, zci, mdContent, zlog, zerr>>
    /\ UNCHANGED rvars
    /\ UNCHANGED xvars

\* without the catch: convert rejects and _convert goes to the next converter
ZipCatchRethrows ==
    /\ pc = "catch"
    /\ zret' = "threw"
    /\ log' = Append(log, [ext |-> extIdx, conv |-> CurConv, out |-> "throw"])
    /\ extIdx' = NextExtIdx
    /\ convIdx' = NextConvIdx
    /\ pc' = "convert"
    /\ UNCHANGED <<dirs, req, sortedConverters, outcome>>
    /\ UNCHANGED <<zdir, zstack, zci, mdContent, zlog, zerr>>
    /\ UNCHANGED rvars
    /\ UNCHANGED xvars

\* catch (error) { return { textContent: "[ERROR] Failed to process zip file ..." } };
\* _convert returns that result
ZipCatch ==
    /\ pc = "catch"
    /\ zret' = "failed"
    /\ log' = Append(log, [ext |-> extIdx, conv |-> CurConv, out |-> "result"])
    /\ outcome' = [type |-> "result", value |-> FailedText(req.path, zerr)]
    /\ pc' = "done"
    /\ UNCHANGED <<dirs, req, sortedConverters, extIdx, convIdx>>
    /\ UNCHANGED <<zdir, zstack, zci, mdContent, zlog, zerr>>
    /\ UNCHANGED rvars
    /\ UNCHANGED xvars

\* ------------------------------------------------------------------------
\* Specification
\* ------------------------------------------------------------------------

FileExtensions == Exts \cup {DotZipUpper, <<>>}

Next ==
    \/ \E k \in StubKinds, p \in Priorities : RegisterConverter(k, p)
    \/ \E c \in 1..(NumBuiltins + MaxStubs), p \in Priorities : SetPriority(c, p)
    \/ \E src \in Sources, fe \in FileExtensions : Convert(src, fe)
    \/ \E src \in Sources, fe \in FileExtensions : ConvertLocal(src, fe)
    \/ \E src \in Sources, e1 \in Exts, e2 \in Exts : ConvertExtensions(src, <<e1, e2>>)
    \/ InvokeResult
    \/ InvokeNull
    \/ InvokeCatch
    \/ NoSuitableConverter
    \/ ZipNoConverters
    \/ ZipBegin
    \/ ZipExtractOk
    \/ \E dirCreated \in BOOLEAN : ZipExtractFail(dirCreated)
    \/ ZipEnterDir
    \/ ZipLeaveDir
    \/ ZipSkipSelf
    \/ ZipEntryResult
    \/ ZipEntryNull
    \/ ZipEntryThrow
    \/ ZipEntryUnconverted
    \/ ZipCleanupReturn
    \/ ZipCatch
    \/ Finish

Spec == Init /\ [][Next]_vars

TypeOK ==
    /\ pc \in {"idle", "convert", "extract", "walk", "cleanup", "catch", "done"}
    /\ Len(registry) = Len(converters)
    /\ \A c \in 1..Len(converters) : converters[c].priority \in Priorities

\* ------------------------------------------------------------------------
\* Properties of dispatch
\* ------------------------------------------------------------------------

Range(f) == {f[i] : i \in DOMAIN f}
Prio(c) == converters[c].priority

\* converter c returns an object for extension ext of the source
Returns(c, ext) == ConvOutcome(converters[c].kind, ext, TRUE) \in {"result", "zip"}

DistinctPriorities ==
    \A c, d \in Range(registry) : c # d => Prio(c) # Prio(d)

Returned == pc = "done" /\ outcome.type = "result"
Winner == log[Len(log)]

\* C1: when the registered converters have pairwise distinct priorities,
\* the converters invoked for one extension are invoked in strictly
\* ascending priority, and the result returned comes from the converter of
\* the smallest priority among those that return an object for that
\* extension, whatever the registration order.
C1_AscendingPriority ==
    DistinctPriorities =>
        /\ \A i, j \in 1..Len(log) :
              (i < j /\ log[i].ext = log[j].ext) => Prio(log[i].conv) < Prio(log[j].conv)
        /\ Returned =>
              /\ outcome.value.by = Winner.conv
              /\ \A c \in Range(registry) :
                    Returns(c, req.exts[Winner.ext]) => Prio(Winner.conv) <= Prio(c)

\* a dispatch returned the result of a converter that is not the first
\* registered converter returning one, under distinct priorities
C1_Witness ==
    /\ Returned
    /\ DistinctPriorities
    /\ Len(log) >= 2
    /\ sortedConverters # registry
    /\ \E i \in 1..Len(registry) :
          /\ Returns(registry[i], req.exts[Winner.ext])
          /\ registry[i] # Winner.conv
          /\ \A k \in 1..i : registry[k] # Winner.conv

\* C2: converters of equal priority are tried in reverse registration order
\* (a converter constructed later has the larger id), and of the
\* equal-priority converters that return an object the most recently
\* registered one produces the result.
C2_TiesMostRecentFirst ==
    /\ \A i, j \in 1..Len(log) :
          (i < j /\ log[i].ext = log[j].ext /\ Prio(log[i].conv) = Prio(log[j].conv))
              => log[i].conv > log[j].conv
    /\ Returned =>
          \A c \in Range(registry) :
              (Prio(c) = Prio(Winner.conv) /\ Returns(c, req.exts[Winner.ext]))
                  => c <= Winner.conv

\* a converter registered after construction at the default priority won
\* over the built-in ZipConverter of the same priority, with three
\* converters of that priority registered
C2_Witness ==
    /\ Returned
    /\ Winner.conv > NumBuiltins
    /\ Prio(Winner.conv) = PRIORITY_SPECIFIC_FILE_FORMAT
    /\ Prio(ZipId) = PRIORITY_SPECIFIC_FILE_FORMAT
    /\ Returns(ZipId, req.exts[Winner.ext])
    /\ Cardinality({c \in Range(registry) : Prio(c) = PRIORITY_SPECIFIC_FILE_FORMAT}) >= 3

\* the i-th iteration of the loops of _convert: extension and converter
IterExt(i) == ((i - 1) \div Len(sortedConverters)) + 1
IterConv(i) == sortedConverters[((i - 1) % Len(sortedConverters)) + 1]

\* C3: a converter that throws never makes dispatch throw: the invocation
\* after it is the next converter in sorted order, and when a converter
\* after it returns an object, dispatch returns a result.
C3_ThrowIsContained ==
    /\ outcome.type # "threw"
    /\ \A i \in 1..Len(log) :
          log[i].out = "throw" =>
              /\ log[i].ext = IterExt(i) /\ log[i].conv = IterConv(i)
              /\ i < Len(log) =>
                    (log[i + 1].ext = IterExt(i + 1) /\ log[i + 1].conv = IterConv(i + 1))
              /\ (i = Len(log) /\ pc # "done") =>
                    (pc # "idle" /\ extIdx = IterExt(i + 1)
                     /\ (extIdx <= Len(req.exts) => CurConv = IterConv(i + 1)))
              /\ (pc = "done" /\ \E k \in (i + 1)..(Len(req.exts) * Len(sortedConverters)) :
                                    Returns(IterConv(k), req.exts[IterExt(k)]))
                    => outcome.type = "result"

\* a converter threw and a converter tried after it produced the result
C3_Witness ==
    /\ Returned
    /\ \E i \in 1..Len(log) : log[i].out = "throw" /\ i < Len(log)
    /\ Winner.out = "result"

\* C4: dispatch ends with the "no suitable converter" error exactly when
\* every registered converter returned null or threw for every candidate
\* extension; it never returns null.
C4_UnsupportedIffExhausted ==
    pc = "done" =>
        /\ outcome.type \in {"result", "unsupported"}
        /\ outcome.type = "result" => outcome.value # NoResult
        /\ outcome.type = "unsupported" <=>
              \A e \in 1..Len(req.exts) : \A c \in Range(registry) :
                  ~Returns(c, req.exts[e])
        /\ outcome.type = "unsupported" =>
              /\ Len(log) = Len(req.exts) * Len(registry)
              /\ \A e \in 1..Len(req.exts) : \A c \in Range(registry) :
                    \E i \in 1..Len(log) :
                        log[i].ext = e /\ log[i].conv = c /\ log[i].out \in {"null", "throw"}

\* dispatch failed after trying two extensions, one converter having thrown
C4_Witness ==
    /\ pc = "done"
    /\ outcome.type = "unsupported"
    /\ Len(req.exts) = 2
    /\ \E i \in 1..Len(log) : log[i].out = "throw"
    /\ \E i \in 1..Len(log) : log[i].out = "null"

\* iterations of the loops of _convert that are still to run
DispatchRemaining ==
    IF pc \in {"idle", "done"} THEN 0
    ELSE Len(req.exts) * Len(sortedConverters) - Len(log)

\* C5: the first object a converter returns ends the dispatch: it is the
\* last invocation and it is the result; every (extension position,
\* converter) pair is invoked at most once; every invocation uses up one of
\* the finitely many pairs, and a finished dispatch has exactly one
\* converter's result or the unsupported-format error.
C5_FirstResultEndsDispatch ==
    /\ [](/\ \A i \in 1..Len(log) :
               log[i].out = "result" =>
                   (i = Len(log) /\ Returned /\ outcome.value.by = log[i].conv)
          /\ \A i, j \in 1..Len(log) :
               (log[i].ext = log[j].ext /\ log[i].conv = log[j].conv) => i = j
          /\ DispatchRemaining >= 0
          /\ pc = "done" =>
               \/ outcome.type = "result" /\ Winner.out = "result"
               \/ outcome.type = "unsupported"
                  /\ \A i \in 1..Len(log) : log[i].out # "result")
    /\ [][Len(log') > Len(log) => DispatchRemaining' < DispatchRemaining]_vars

\* a dispatch over two extensions returned at the first object although
\* converters and an extension were still untried
C5_Witness ==
    /\ Returned
    /\ Len(req.exts) = 2
    /\ Winner.ext = 1
    /\ Len(log) >= 2
    /\ Len(log) < Len(sortedConverters)
    /\ \E c \in Range(registry) : Returns(c, req.exts[2])

\* ------------------------------------------------------------------------
\* Properties of archive expansion
\* ------------------------------------------------------------------------

\* the files of an extracted tree in directory-walk order (subdirectories
\* in place), each with its path relative to the archive root
RECURSIVE WalkFiles(_, _, _)
WalkFiles(entries, dir, prefix) ==
    IF entries = <<>> THEN <<>>
    ELSE LET e == Head(entries)
         IN (IF e.isDir
             THEN WalkFiles(e.children, PathJoin(dir, e.name), WithParent(prefix, e.name))
             ELSE << [heading |-> WithParent(prefix, e.name),
                      path |-> PathJoin(dir, e.name),
                      entry |-> e] >>)
            \o WalkFiles(Tail(entries), dir, prefix)

ExtractedFiles == WalkFiles(req.src.tree, zdir, <<>>)

\* what converter c does with extracted file f
FileOutcome(c, f) ==
    ConvOutcome(converters[c].kind, ExtName(f.entry.name), f.entry.readable)

NonArchive(c) == converters[c].kind # "Zip"

\* some non-archive converter returns an object for f / throws for f
ConvertibleFile(f) ==
    \E c \in Range(ParentConverters) : NonArchive(c) /\ FileOutcome(c, f) = "result"
ThrowingFile(f) ==
    \E c \in Range(ParentConverters) : NonArchive(c) /\ FileOutcome(c, f) = "throw"

\* ZipConverter.convert returned after the archive had been extracted
ZipReturned == pc = "done" /\ zret \in {"content", "failed"}
WalkedAndReturned ==
    /\ pc = "done"
    /\ \/ zret = "content"
       \/ zret = "failed" /\ zerr[1] = "converter failed"

HasSection(secs, f) ==
    \E i \in 1..Len(secs) :
        /\ secs[i].heading = f.heading
        /\ \E c \in Range(ParentConverters) :
              /\ NonArchive(c)
              /\ FileOutcome(c, f) = "result"
              /\ secs[i].text = ConvResult(c, converters[c].kind, f.path)

\* C6: when ZipConverter.convert has returned for a .zip request, its
\* extraction directory does not exist.
C6_ExtractionDirRemoved ==
    ZipReturned => zdir \notin dirs

\* C7: an entry for which a converter throws, or no converter returns an
\* object, is skipped; the returned text has the sub-heading and text of
\* every other convertible entry.
C7_FailingEntrySkipped ==
    WalkedAndReturned =>
        /\ zret = "content"
        /\ \A k \in 1..Len(ExtractedFiles) :
              (ConvertibleFile(ExtractedFiles[k]) /\ ~ThrowingFile(ExtractedFiles[k]))
                  => HasSection(outcome.value.sections, ExtractedFiles[k])

IsZipName(name) == ToLower(ExtName(name)) = DotZip

\* steps the walk has left: every file costs at most one step per parent
\* converter and one to move on, every directory one to enter and one to leave
RECURSIVE TreeWeight(_, _)
TreeWeight(entries, n) ==
    IF entries = <<>> THEN 0
    ELSE (IF Head(entries).isDir
          THEN 2 + TreeWeight(Head(entries).children, n)
          ELSE n + 1)
         + TreeWeight(Tail(entries), n)

RECURSIVE StackWeight(_, _)
StackWeight(stack, n) ==
    IF stack = <<>> THEN 0
    ELSE LET f == Head(stack)
         IN TreeWeight(SubSeq(f.entries, f.idx, Len(f.entries)), n) + 1
            + StackWeight(Tail(stack), n)

WalkMeasure ==
    IF pc # "walk" THEN 0
    ELSE StackWeight(zstack, Len(ParentConverters)) - (zci - 1)

WalkTerminates ==
    /\ [](WalkMeasure >= 0)
    /\ [][(pc = "walk" /\ pc' = "walk") => WalkMeasure' < WalkMeasure]_vars

\* C8 as stated: ZipConverter.convert is never invoked on an extracted
\* entry, no sub-heading is added for an entry that is a .zip archive, and
\* the walk terminates.
C8_NestedArchiveNoHeading ==
    /\ [](/\ \A i \in 1..Len(zlog) : NonArchive(zlog[i].conv)
          /\ \A i \in 1..Len(mdContent) : ~IsZipName(mdContent[i].heading))
    /\ WalkTerminates

\* C8 amended: ZipConverter.convert is never invoked on an extracted entry;
\* every sub-heading is that of an extracted file, with the text a
\* non-archive converter returned for that file, so nothing comes from
\* inside a nested archive, and a nested archive has a sub-heading only when
\* a registered non-archive converter returns an object for it (none when
\* only the built-in converters are registered); the walk terminates.
C8_NestedArchiveNotExpanded ==
    /\ [](/\ \A i \in 1..Len(zlog) : NonArchive(zlog[i].conv)
          /\ \A i \in 1..Len(mdContent) :
                /\ \E k \in 1..Len(ExtractedFiles) :
                      /\ mdContent[i].heading = ExtractedFiles[k].heading
                      /\ mdContent[i].text.of = ExtractedFiles[k].path
                /\ mdContent[i].text.kind \in {"text", "stub"}
                /\ NonArchive(mdContent[i].text.by)
                /\ IsZipName(mdContent[i].heading) =>
                      converters[mdContent[i].text.by].kind \notin BuiltinKinds)
    /\ WalkTerminates

\* an archive holding a nested archive was walked to the end with only
\* built-in converters registered: texts collected, none for the nested archive
C8_Witness ==
    /\ pc = "done"
    /\ zret = "content"
    /\ \E k \in 1..Len(ExtractedFiles) : IsZipName(ExtractedFiles[k].heading)
    /\ Len(outcome.value.sections) >= 2
    /\ \A i \in 1..Len(outcome.value.sections) :
          ~IsZipName(outcome.value.sections[i].heading)

\* C9: the returned text has, in directory-walk order, exactly one
\* sub-heading (relative path) and text for each extracted file for which
\* some non-archive converter returns an object, and nothing for the others.
C9_OneSectionPerConvertibleFile ==
    WalkedAndReturned =>
        LET conv == SelectSeq(ExtractedFiles, ConvertibleFile)
            secs == outcome.value.sections
        IN /\ Len(secs) = Len(conv)
           /\ \A i \in 1..Len(conv) :
                 /\ secs[i].heading = conv[i].heading
                 /\ HasSection(<<secs[i]>>, conv[i])

\* C10: for a request declaring .zip, ZipConverter.convert never throws:
\* without parent converters it returns the "no converters" text and sets
\* up no extraction; when the extraction fails it returns an error text
\* that carries the message of the failure.
C10_ZipNeverThrows ==
    /\ zret \in {"none", "noconverters", "content", "failed"}
    /\ \A i \in 1..Len(log) :
          (converters[log[i].conv].kind = "Zip" /\ ToLower(req.exts[log[i].ext]) = DotZip)
              => log[i].out = "result"
    /\ zret = "noconverters" =>
          /\ Returned
          /\ outcome.value = NoConvertersText(req.path)
          /\ zdir = <<>> /\ zstack = <<>> /\ zlog = <<>>
    /\ zret = "failed" =>
          /\ Returned
          /\ outcome.value.kind = "error"
          /\ outcome.value.msg = zerr
          /\ zerr # NoMsg
    /\ (pc = "catch" /\ zstack = <<>>) => zerr = <<"extraction failed", 0>>

\* the extraction failed and convert returned the error text
C10_Witness ==
    /\ Returned
    /\ zret = "failed"
    /\ outcome.value.msg = <<"extraction failed", 0>>
    /\ ToLower(req.exts[Winner.ext]) = DotZip

\* the converter top-level dispatch selects for extracted file f over the
\* registered converters minus the archive converter: the first of the
\* sorted copy that returns an object (one that throws is passed over),
\* NoConv when there is none
DispatchChoice(f) ==
    LET sorted == SelectSeq(SortByPriority(registry, converters), NonArchive)
        m == {k \in 1..Len(sorted) : FileOutcome(sorted[k], f) = "result"}
    IN IF m = {} THEN NoConv ELSE sorted[CHOOSE k \in m : \A j \in m : k <= j]

\* C17: for every extracted archive entry the converter that produces the
\* entry's text is the one top-level dispatch (ascending priority, ties
\* most recently registered first) would select for that file over the
\* registered converters minus the archive converter.
C17_EntryConverterIsDispatchChoice ==
    pc \in {"walk", "cleanup", "catch", "done"} =>
        \A i \in 1..Len(zlog) :
            zlog[i].out = "result" =>
                \A k \in 1..Len(ExtractedFiles) :
                    ExtractedFiles[k].path = zlog[i].path =>
                        zlog[i].conv = DispatchChoice(ExtractedFiles[k])

\* C21: no step of a dispatch changes the registry (the sort works on a
\* copy): the registered list holds the same converters in the same order
\* from the start of a dispatch to its end, whether it returns or fails.
\* The only step that changes the list is registerConverter, which puts
\* exactly one new converter at the head and leaves the converters already
\* registered in their order.
C21_DispatchKeepsRegistry ==
    [][\/ registry' = registry
       \/ /\ pc = "idle" /\ pc' = "idle"
          /\ Len(registry') = Len(registry) + 1
          /\ registry'[1] \notin Range(registry)
          /\ SubSeq(registry', 2, Len(registry')) = registry]_vars

\* a dispatch that tried the converters in an order other than the
\* registered one has ended, a caller's converter being at the head of the
\* registered list
C21_Witness ==
    /\ pc = "done"
    /\ sortedConverters # registry
    /\ Len(log) >= 2
    /\ registry[1] > NumBuiltins
    /\ SubSeq(registry, 2, Len(registry)) = <<ZipId, PlainTextId>>

\* ------------------------------------------------------------------------
\* The registry changed while a dispatch is in flight
\* ------------------------------------------------------------------------

\* registerConverter(new Stub(priority)) called between two awaits of
\* _convert
RegisterConverterInFlight(kind, priority) ==
    /\ pc = "convert"
    /\ Len(converters) < NumBuiltins + MaxStubs
    /\ converters' = Append(converters, [kind |-> kind, priority |-> priority])
    /\ registry' = Unshift(registry, Len(converters) + 1)
    /\ UNCHANGED <<dirs, pc>>
    /\ UNCHANGED dvars
    /\ UNCHANGED zvars
    /\ UNCHANGED xvars

\* converter.priority = value assigned between two awaits of _convert
SetPriorityInFlight(c, value) ==
    /\ pc = "convert"
    /\ c \in 1..Len(converters)
    /\ converters[c].priority # value
    /\ converters' = [converters EXCEPT ![c].priority = value]
    /\ UNCHANGED <<registry, dirs, pc>>
    /\ UNCHANGED dvars
    /\ UNCHANGED zvars
    /\ UNCHANGED xvars

\* the text file of Sources, converted with an extension no archive
\* converter accepts
TextSource == CHOOSE src \in Sources : ~src.isArchive
LiveExts == {DotTxt, DotBin}

NextLive ==
    \/ \E k \in StubKinds, p \in Priorities : RegisterConverter(k, p)
    \/ \E c \in 1..(NumBuiltins + MaxStubs), p \in Priorities : SetPriority(c, p)
    \/ \E k \in StubKinds, p \in Priorities : RegisterConverterInFlight(k, p)
    \/ \E c \in 1..(NumBuiltins + MaxStubs), p \in Priorities : SetPriorityInFlight(c, p)
    \/ \E fe \in LiveExts : Convert(TextSource, fe)
    \/ \E e1 \in LiveExts, e2 \in LiveExts : ConvertExtensions(TextSource, <<e1, e2>>)
    \/ InvokeResult
    \/ InvokeNull
    \/ InvokeCatch
    \/ NoSuitableConverter
    \/ Finish

SpecLive == Init /\ [][NextLive]_vars

\* sorted holds the converters of list ascending by the priorities of
\* convs, converters of equal priority in the order they have in list
IsStableSortOf(sorted, list, convs) ==
    /\ Len(sorted) = Len(list)
    /\ Range(sorted) = Range(list)
    /\ \A i, j \in 1..Len(sorted) :
          i < j =>
              /\ convs[sorted[i]].priority <= convs[sorted[j]].priority
              /\ convs[sorted[i]].priority = convs[sorted[j]].priority =>
                    \E a, b \in 1..Len(list) :
                        a < b /\ list[a] = sorted[i] /\ list[b] = sorted[j]

\* C28: a dispatch orders the converters by the priorities they hold when
\* it starts, whatever setter calls came before it and without
\* re-registering; a priority change or a registerConverter call made
\* while the dispatch is in flight leaves the order it tries the converters
\* in as it was fixed at the start.
C28_OrderFixedAtDispatchStart ==
    /\ [][(pc = "idle" /\ pc' = "convert") =>
              IsStableSortOf(sortedConverters', registry, converters)]_vars
    /\ [][(pc # "idle" /\ pc' # "idle") => sortedConverters' = sortedConverters]_vars
    /\ [](pc \in {"convert", "done"} =>
              \A i \in 1..Len(log) :
                  log[i].ext = IterExt(i) /\ log[i].conv = IterConv(i))

\* a dispatch has ended after trying two converters or more, and the
\* priorities were changed while it was in flight so that a dispatch
\* starting now would try the same converters in another order
C28_Witness ==
    /\ pc = "done"
    /\ Len(log) >= 2
    /\ Len(registry) = Len(sortedConverters)
    /\ SortByPriority(registry, converters) # sortedConverters
    /\ sortedConverters # registry

\* ------------------------------------------------------------------------
\* CustomMarkdownConverter: the active rule list and the built-in rules
\* ------------------------------------------------------------------------

\* number of addRule calls after the constructor's own
MaxAddedRules == 2

\* Text is a sequence of tokens: single characters where the code looks at
\* characters (URL schemes, tag names), longer pieces elsewhere.

\* String.prototype.trimStart / trimEnd / trim
RECURSIVE TrimStart(_)
TrimStart(s) == IF s # <<>> /\ Head(s) \in {" ", "\n"} THEN TrimStart(Tail(s)) ELSE s

RECURSIVE TrimEnd(_)
TrimEnd(s) ==
    IF s # <<>> /\ s[Len(s)] \in {" ", "\n"} THEN TrimEnd(SubSeq(s, 1, Len(s) - 1)) ELSE s

Trim(s) == TrimEnd(TrimStart(s))

\* content.replace(/\\_/g, "_")
UnescapeUnderscores(s) == [i \in 1..Len(s) |-> IF s[i] = "\\_" THEN "_" ELSE s[i]]

\* title.replace(/"/g, '\\"')
EscapeQuotes(s) == [i \in 1..Len(s) |-> IF s[i] = "\"" THEN "\\\"" ELSE s[i]]

\* position of the first occurrence of a token, 0 when there is none
FirstIndex(s, tok) ==
    LET at == {i \in 1..Len(s) : s[i] = tok}
    IN IF at = {} THEN 0 ELSE CHOOSE i \in at : \A j \in at : i <= j

SchemeLetters == {"a", "c", "d", "e", "f", "h", "i", "j", "l", "m", "o", "p",
                  "r", "s", "t", "v"}

\* new URL(href) without a base: an absolute URL has a scheme of letters
\* before its first ":"; anything else throws.  The scheme is lowercased,
\* the piece after the ":" of an http, https or file URL is its host, the
\* rest its path, in which the parser percent-encodes a raw space.
ParseURL(href) ==
    LET colon == FirstIndex(href, ":")
        scheme == SubSeq(href, 1, colon - 1)
        ok == /\ colon > 1
              /\ \A i \in 1..(colon - 1) : LowerChar(href[i]) \in SchemeLetters
        rest == SubSeq(href, colon + 1, Len(href))
    IN [ok |-> ok,
        protocol |-> IF ok THEN ToLower(scheme) \o <<":">> ELSE <<>>,
        host |-> IF ok /\ rest # <<>> THEN <<Head(rest)>> ELSE <<>>,
        pathname |-> IF ok /\ rest # <<>>
                     THEN [i \in 1..(Len(rest) - 1) |->
                              IF rest[i + 1] = " " THEN "%20" ELSE rest[i + 1]]
                     ELSE <<>>]

\* decodeURI throws a URIError on a "%" that starts no escape
DecodeURIThrows(s) == \E i \in 1..Len(s) : s[i] = "%"

\* decodeURI: an escaped space is decoded, an escaped reserved character
\* ("%2F") is left as it is
DecodeURI(s) == [i \in 1..Len(s) |-> IF s[i] = "%20" THEN " " ELSE s[i]]

\* encodeURI: a space is escaped, and so is the "%" of an escape that
\* decodeURI left in place
EncodeURI(s) ==
    [i \in 1..Len(s) |->
        CASE s[i] = " " -> "%20"
          [] s[i] = "%2F" -> "%252F"
          [] OTHER -> s[i]]

\* url.toString() after url.pathname = encodeURI(decodeURI(url.pathname))
UrlToString(u) == u.protocol \o u.host \o EncodeURI(DecodeURI(u.pathname))

AllowedProtocols == { <<"h", "t", "t", "p", ":">>,
                      <<"h", "t", "t", "p", "s", ":">>,
                      <<"f", "i", "l", "e", ":">> }

\* what a replacement returns
Out(form, level, content, href, title) ==
    [form |-> form, rule |-> "none", seq |-> 0, level |-> level,
     content |-> content, href |-> href, title |-> title, size |-> <<>>]

\* the "heading" rule: "\n" + "#".repeat(level) + " " + content.trim() + "\n"
DigitValue(ch) ==
    CASE ch = "1" -> 1 [] ch = "2" -> 2 [] ch = "3" -> 3
      [] ch = "4" -> 4 [] ch = "5" -> 5 [] ch = "6" -> 6

HeadingReplacement(node) ==
    Out("heading", DigitValue(node.nodeName[2]), Trim(node.content), <<>>, <<>>)

\* the tail of the "link" rule: <href>, [content](href "title") or content
LinkText(content, href, title) ==
    IF UnescapeUnderscores(content) = href /\ title = <<>>
    THEN Out("autolink", 0, <<>>, href, <<>>)
    ELSE IF href # <<>>
         THEN Out("link", 0, content, href, EscapeQuotes(title))
         ELSE Out("text", 0, content, <<>>, <<>>)

\* the "link" rule with the test of url.protocol left out
LinkReplacementAnyProtocol(node) ==
    LET content == Trim(node.content)
        url == ParseURL(node.href)
    IN IF content = <<>> THEN Out("empty", 0, <<>>, <<>>, <<>>)
       ELSE IF node.hasHref /\ node.href # <<>>
            THEN IF ~url.ok THEN Out("text", 0, content, <<>>, <<>>)
                 ELSE IF DecodeURIThrows(url.pathname)
                      THEN Out("text", 0, content, <<>>, <<>>)
                      ELSE LinkText(content, UrlToString(url), node.title)
            ELSE LinkText(content, <<>>, node.title)

\* the "link" rule
LinkReplacement(node) ==
    LET content == Trim(node.content)
        url == ParseURL(node.href)
    IN IF content = <<>> THEN Out("empty", 0, <<>>, <<>>, <<>>)
       ELSE IF node.hasHref /\ node.href # <<>>
            THEN IF ~url.ok THEN Out("text", 0, content, <<>>, <<>>)
                 ELSE IF url.protocol \notin AllowedProtocols
                      THEN Out("text", 0, content, <<>>, <<>>)
                      ELSE IF DecodeURIThrows(url.pathname)
                           THEN Out("text", 0, content, <<>>, <<>>)
                           ELSE LinkText(content, UrlToString(url), node.title)
            ELSE LinkText(content, <<>>, node.title)

\* the "image" rule with the test of the parent's tag left out
ImageReplacementAnyParent(node, keep) ==
    LET comma == FirstIndex(node.src, ",")
        src == IF node.src # <<>> /\ Head(node.src) = "data:"
               THEN (IF comma = 0 THEN node.src
                     ELSE SubSeq(node.src, 1, comma - 1)) \o <<"...">>
               ELSE node.src
    IN Out("image", 0, node.alt, src, EscapeQuotes(node.title))

\* the "image" rule: the alt text alone when the node has a parent whose
\* lowercased tag is not in keepInlineImages (or the option is not an
\* array); otherwise ![alt](src "title"), a data: URI cut at its first ","
ImageReplacement(node, keep) ==
    LET comma == FirstIndex(node.src, ",")
        src == IF node.src # <<>> /\ Head(node.src) = "data:"
               THEN (IF comma = 0 THEN node.src
                     ELSE SubSeq(node.src, 1, comma - 1)) \o <<"...">>
               ELSE node.src
    IN IF /\ node.parent # <<>>
          /\ (~keep.isArray \/ ToLower(node.parent) \notin keep.items)
       THEN Out("text", 0, node.alt, <<>>, <<>>)
       ELSE Out("image", 0, node.alt, src, EscapeQuotes(node.title))

\* WikipediaConverter's "image" rule: ![alt](src), "https:" put before a
\* protocol-relative src, and the size when width and height are both given
WikiImageReplacement(node) ==
    LET src == IF node.src # <<>> /\ Head(node.src) = "//"
               THEN <<"https:">> \o node.src ELSE node.src
    IN [Out("image", 0, node.alt, src, <<>>) EXCEPT
           !.size = IF node.width # <<>> /\ node.height # <<>>
                    THEN <<node.width, node.height>> ELSE <<>>]

\* a rule: its key, its filter (tag names, or a class for a function
\* filter), its replacement and the position of its addRule call
Rule(name, tags, cls, repl) ==
    [name |-> name, tags |-> tags, cls |-> cls, repl |-> repl, seq |-> 0]

TagA == <<"a">>
TagImg == <<"i", "m", "g">>
HeadingTags == {<<"h", "1">>, <<"h", "2">>, <<"h", "3">>, <<"h", "4">>,
                <<"h", "5">>, <<"h", "6">>}

HeadingRule == Rule("heading", HeadingTags, "none", "heading")
LinkRule == Rule("link", {TagA}, "none", "link")
ImageRule == Rule("image", {TagImg}, "none", "image")
WikiImageRule == Rule("image", {TagImg}, "none", "wikiImage")
WikiRefRule == Rule("wikiRef", {}, "reference", "wikiRef")

\* rules a caller adds: a replacement of its own for links, for headings
CustomRules == { Rule("customLink", {TagA}, "none", "custom"),
                 Rule("customHeading", {<<"h", "1">>, <<"h", "2">>}, "none", "custom") }

AddableRules == {WikiImageRule, WikiRefRule} \cup CustomRules

\* a filter applied to a node: a tag filter compares the lowercased
\* nodeName, WikipediaConverter's function filter looks at the class list
Matches(rule, node) ==
    \/ ToLower(node.nodeName) \in rule.tags
    \/ rule.cls # "none" /\ node.cls = rule.cls

\* turndownService.addRule(key, rule): the rule goes to the front
TurndownAddRule(list, rule) == <<rule>> \o list

\* the rule turndown applies to a node: the first of the list, front to
\* back, whose filter matches; 0 when none does
ForNode(list, node) ==
    LET m == {i \in 1..Len(list) : Matches(list[i], node)}
    IN IF m = {} THEN 0 ELSE CHOOSE i \in m : \A j \in m : i <= j

\* the three addRule calls of the constructor
ConstructorRules ==
    << [HeadingRule EXCEPT !.seq = 1], [LinkRule EXCEPT !.seq = 2],
       [ImageRule EXCEPT !.seq = 3] >>

Constructed ==
    TurndownAddRule(TurndownAddRule(TurndownAddRule(<<>>,
        ConstructorRules[1]), ConstructorRules[2]), ConstructorRules[3])

\* the replacement of a rule applied to a node
Replacement(rule, node, keep) ==
    LET out == CASE rule.repl = "heading" -> HeadingReplacement(node)
                 [] rule.repl = "link" -> LinkReplacement(node)
                 [] rule.repl = "image" -> ImageReplacement(node, keep)
                 [] rule.repl = "wikiImage" -> WikiImageReplacement(node)
                 [] rule.repl = "wikiRef" -> Out("empty", 0, <<>>, <<>>, <<>>)
                 [] OTHER -> Out("custom", 0, node.content, <<>>, <<>>)
    IN [out EXCEPT !.rule = rule.name, !.seq = rule.seq]

\* nodes -----------------------------------------------------------------

Node(nodeName, parent, cls, content) ==
    [NoNode EXCEPT !.nodeName = nodeName, !.parent = parent, !.cls = cls,
                   !.content = content]

HttpScheme == <<"h", "t", "t", "p">>
Contents == { <<>>, <<" ">>, <<" ", "x", " ">>,
              HttpScheme \o <<":", "//h", "/a", "\\_", "b">> }
Hrefs == { HttpScheme \o <<":", "//h", "/a", "_", "b">>,
           <<"H", "T", "T", "P", "S", ":", "//h", "/a", " ", "b">>,
           <<"f", "i", "l", "e", ":", "//", "/f">>,
           <<"j", "a", "v", "a", "s", "c", "r", "i", "p", "t", ":", "alert(1)">>,
           <<"m", "a", "i", "l", "t", "o", ":", "m@h">>,
           <<"/rel">>,
           HttpScheme \o <<":", "//h", "/a", "%">>,
           HttpScheme \o <<":", "//h", "/a", "%2F", "b">>,
           <<>> }
Titles == { <<>>, <<"q", "\"">> }
ParentTags == { <<>>, <<"P">>, <<"D", "I", "V">> }
Srcs == { <<>>, <<"/i.png">>, <<"//", "u/i.png">>,
          <<"data:", "image/png;base64", ",", "AAAA", ",", "BB">> }
Sizes == { <<<<>>, <<>>>>, <<<<"9">>, <<>>>>, <<<<"9">>, <<"5">>>> }

Anchors ==
    { [Node(<<"A">>, <<"P">>, "none", <<" ", "x", " ">>) EXCEPT
          !.href = h, !.hasHref = TRUE] : h \in Hrefs }
    \cup { [Node(<<"A">>, <<"P">>, "none", c) EXCEPT
               !.href = h, !.hasHref = TRUE, !.title = t] :
             c \in Contents, t \in Titles,
             h \in { HttpScheme \o <<":", "//h", "/a", "_", "b">>,
                     <<"j", "a", "v", "a", "s", "c", "r", "i", "p", "t", ":", "alert(1)">> } }
    \cup { Node(<<"A">>, <<"P">>, "none", c) : c \in Contents }

Images ==
    { [Node(<<"I", "M", "G">>, p, "none", <<>>) EXCEPT !.alt = <<"pic">>, !.src = s] :
        p \in ParentTags, s \in Srcs }
    \cup { [Node(<<"I", "M", "G">>, <<"P">>, "none", <<>>) EXCEPT
               !.src = <<"//", "u/i.png">>, !.title = <<"q", "\"">>,
               !.width = z[1], !.height = z[2]] :
             z \in Sizes }

Headings ==
    { Node(n, <<"D", "I", "V">>, "none", c) :
        n \in {<<"H", "1">>, <<"H", "6">>}, c \in {<<>>, <<" ", "x", " ">>} }

Others == { Node(<<"S", "U", "P">>, <<"P">>, "reference", <<"[1]">>),
            Node(<<"S", "P", "A", "N">>, <<"P">>, "none", <<"x">>) }

Nodes == Anchors \cup Images \cup Headings \cup Others

\* the values of the keepInlineImages option: not an array, the default
\* empty array, a whitelist
KeepOptions == { [isArray |-> FALSE, items |-> {}],
                 [isArray |-> TRUE, items |-> {}],
                 [isArray |-> TRUE, items |-> {<<"p">>}] }

\* actions ---------------------------------------------------------------

\* everything but the markdown converter
mframe == <<cvars, wvars, yvars, evars, svars, pvars, bvars>>

\* new CustomMarkdownConverter(options)
InitMd ==
    /\ CoreInit
    /\ WikiIdle
    /\ YtIdle
    /\ MediaIdle
    /\ SrcIdle
    /\ ParIdle
    /\ BagIdle
    /\ rules = Constructed
    /\ keepInlineImages \in KeepOptions
    /\ added = <<>>
    /\ mdNode = NoNode
    /\ mdOut = NoOut

\* addRule that does not forward the rule to turndown
AddRuleDropped(rule) ==
    /\ Len(added) < MaxAddedRules
    /\ added' = Append(added, [rule EXCEPT !.seq = Len(ConstructorRules) + Len(added) + 1])
    /\ UNCHANGED <<rules, keepInlineImages, mdNode, mdOut>>
    /\ UNCHANGED mframe

\* addRule(rule, rules)
AddRule(rule) ==
    /\ Len(added) < MaxAddedRules
    /\ LET r == [rule EXCEPT !.seq = Len(ConstructorRules) + Len(added) + 1]
       IN /\ rules' = TurndownAddRule(rules, r)
          /\ added' = Append(added, r)
    /\ UNCHANGED <<keepInlineImages, mdNode, mdOut>>
    /\ UNCHANGED mframe

\* the replacement step of convert(html) on one node, its children rendered
Render(node) ==
    /\ mdNode' = node
    /\ mdOut' = IF ForNode(rules, node) = 0
                THEN Out("default", 0, node.content, <<>>, <<>>)
                ELSE Replacement(rules[ForNode(rules, node)], node, keepInlineImages)
    /\ UNCHANGED <<rules, keepInlineImages, added>>
    /\ UNCHANGED mframe

NextMd ==
    \/ \E rule \in AddableRules : AddRule(rule)
    \/ \E node \in Nodes : Render(node)

SpecMd == InitMd /\ [][NextMd]_vars

\* ------------------------------------------------------------------------
\* Properties of the rule engine
\* ------------------------------------------------------------------------

\* the lowercased characters of an href before its first ":", <<>> when
\* it has no ":"
HrefScheme(href) ==
    IF \E i \in 1..Len(href) : href[i] = ":"
    THEN ToLower(SubSeq(href, 1, (CHOOSE i \in 1..Len(href) :
                    href[i] = ":" /\ \A j \in 1..(i - 1) : href[j] # ":") - 1))
    ELSE <<>>

SafeSchemes == { <<"h", "t", "t", "p">>, <<"h", "t", "t", "p", "s">>,
                 <<"f", "i", "l", "e">> }

\* the node last rendered went through the constructor's link / image rule
ByLinkRule == mdOut.rule = "link" /\ mdOut.seq = 2
ByImageRule == mdOut.rule = "image" /\ mdOut.seq = 3

\* C11: the link rule emits [content](href) or <href> only for an href
\* whose scheme is http, https or file; an href of any other scheme
\* (javascript:, mailto:) gives the trimmed text content alone.
C11_LinkOnlySafeSchemes ==
    ByLinkRule =>
        /\ mdOut.form \in {"link", "autolink"} =>
               mdNode.hasHref /\ HrefScheme(mdNode.href) \in SafeSchemes
        /\ (mdNode.hasHref /\ HrefScheme(mdNode.href) \notin SafeSchemes) =>
               /\ mdOut.form \in {"text", "empty"}
               /\ mdOut.content = Trim(mdNode.content)
               /\ mdOut.href = <<>>

\* a javascript: link with text was rendered as its text, and an https
\* link as a link
C11_Witness ==
    /\ ByLinkRule
    /\ HrefScheme(mdNode.href) = <<"j", "a", "v", "a", "s", "c", "r", "i", "p", "t">>
    /\ mdOut.form = "text"
    /\ mdOut.content = <<"x">>

\* the addRule calls so far, the constructor's included, in call order
AddRuleCalls == ConstructorRules \o added

\* the last call whose rule matches the node, 0 when none does
MostRecentMatch(node) ==
    LET m == {i \in 1..Len(AddRuleCalls) : Matches(AddRuleCalls[i], node)}
    IN IF m = {} THEN 0 ELSE CHOOSE i \in m : \A j \in m : j <= i

MostRecentApplied ==
    mdNode # NoNode =>
        IF MostRecentMatch(mdNode) = 0
        THEN mdOut.form = "default"
        ELSE /\ mdOut.seq = MostRecentMatch(mdNode)
             /\ mdOut.rule = AddRuleCalls[MostRecentMatch(mdNode)].name

\* C12: after any sequence of addRule calls, the rule applied to a node is
\* the most recently added rule whose filter matches it: a rule added after
\* construction wins over the built-in heading, link and image rules and
\* over every rule added before it.
C12_MostRecentRuleWins ==
    [][added' = added => MostRecentApplied']_vars

\* a link was rendered by the second of two added rules that both match
\* it, the built-in link rule being a third
C12_Witness ==
    /\ Len(added) = 2
    /\ Matches(added[1], mdNode) /\ Matches(added[2], mdNode)
    /\ Matches(LinkRule, mdNode)
    /\ mdOut.seq = 5

\* src.split(",")[0] + "..." of a data: URI, src itself otherwise
TruncatedSrc(src) ==
    IF src # <<>> /\ src[1] = "data:"
    THEN SubSeq(src, 1, CHOOSE n \in 0..Len(src) :
                 /\ \A i \in 1..n : src[i] # ","
                 /\ (n = Len(src) \/ src[n + 1] = ",")) \o <<"...">>
    ELSE src

Whitelisted(node) ==
    keepInlineImages.isArray /\ ToLower(node.parent) \in keepInlineImages.items

\* C20: the image rule renders an img as its alt text alone unless the tag
\* of its immediate parent is in keepInlineImages; then it is
\* ![alt](src "title"), a data: URI cut to the part before its first ","
\* plus "...".  With the default empty whitelist no img that has a parent
\* gets image syntax.
C20_ImageOnlyWhenWhitelisted ==
    (ByImageRule /\ mdNode.parent # <<>>) =>
        /\ mdOut.form = (IF Whitelisted(mdNode) THEN "image" ELSE "text")
        /\ mdOut.content = mdNode.alt
        /\ mdOut.form = "image" =>
               /\ mdOut.href = TruncatedSrc(mdNode.src)
               /\ mdOut.title = EscapeQuotes(mdNode.title)
        /\ mdOut.form = "text" => mdOut.href = <<>> /\ mdOut.title = <<>>
        /\ keepInlineImages.items = {} => mdOut.form = "text"

\* an img with a data: URI inside a whitelisted <p> was rendered with its
\* src cut at the first ","
C20_Witness ==
    /\ ByImageRule
    /\ mdNode.parent = <<"P">>
    /\ mdNode.src # <<>> /\ mdNode.src[1] = "data:"
    /\ mdOut.form = "image"
    /\ mdOut.href = <<"data:", "image/png;base64", "...">>

\* ------------------------------------------------------------------------
\* WikipediaConverter: parseSections and generateMarkdown
\* ------------------------------------------------------------------------

\* number of child nodes of the content element
MaxChildren == 5

\* a child node: tagName (<<>> for a text node), outerHTML, textContent,
\* the textContent of its .mw-headline descendant (<<>> when it has none)
\* and its class attribute, a list of class names
Child(tagName, outerHTML, textContent, headline, classList) ==
    [tagName |-> tagName, outerHTML |-> outerHTML,
     textContent |-> textContent, headline |-> headline,
     classList |-> classList]

Paragraph == Child(<<"P">>, <<"<p>a</p>">>, <<"a">>, <<>>, <<>>)
TextNode == Child(<<>>, <<>>, <<"x">>, <<>>, <<>>)
HeadingH2 == Child(<<"H", "2">>, <<"<h2>A b</h2>">>, <<"A", " ", "b">>, <<"A", " ", "b">>, <<>>)
HeadingH3 == Child(<<"H", "3">>, <<"<h3> Hi </h3>">>, <<" ", "H", "i", " ">>, <<>>, <<>>)

\* <div class="mw-heading mw-heading2"><h2>B</h2></div> and the same for
\* h3 and h4: the heading markers of the current Wikipedia markup
MwHeading == <<"m", "w", "-", "h", "e", "a", "d", "i", "n", "g">>
Marker(digit, text) ==
    Child(<<"D", "I", "V">>, <<"<div><h", digit, ">", text, "</h", digit, "></div>">>,
          <<text>>, <<>>, <<MwHeading, MwHeading \o <<digit>>>>)
Marker2 == Marker("2", "B")
Marker3 == Marker("3", "H")
Marker4 == Marker("4", "I")

ChildKinds == {Paragraph, TextNode, HeadingH2, HeadingH3, Marker2, Marker3, Marker4}

RECURSIVE SeqsUpTo(_, _)
SeqsUpTo(S, n) ==
    IF n = 0 THEN {<<>>}
    ELSE LET shorter == SeqsUpTo(S, n - 1)
         IN shorter \cup {Append(q, x) : q \in {r \in shorter : Len(r) = n - 1}, x \in S}

Roots == SeqsUpTo(ChildKinds, MaxChildren)

\* tagName.match(/^H[1-6]$/i)
IsHeadingTag(tagName) ==
    /\ Len(tagName) = 2
    /\ LowerChar(tagName[1]) = "h"
    /\ tagName[2] \in {"1", "2", "3", "4", "5", "6"}

\* querySelector(".mw-headline")?.textContent || textContent?.trim()
HeadingText(child) ==
    IF child.headline # <<>> THEN child.headline ELSE Trim(child.textContent)

\* tagName[1] ? parseInt(tagName[1]) : 5
HeadingLevel(child) ==
    IF Len(child.tagName) >= 2 THEN DigitValue(child.tagName[2]) ELSE 5

AnchorChars == {"a", "b", "h", "i", "x", "0", "1", "2", "3", "4", "5", "6",
                "7", "8", "9"}

\* _createAnchorId: text.toLowerCase().replace(/[^a-z0-9]+/g, "-")
RECURSIVE ReplaceRuns(_, _)
ReplaceRuns(s, inRun) ==
    IF s = <<>> THEN <<>>
    ELSE IF Head(s) \in AnchorChars
         THEN <<Head(s)>> \o ReplaceRuns(Tail(s), FALSE)
         ELSE (IF inRun THEN <<>> ELSE <<"-">>) \o ReplaceRuns(Tail(s), TRUE)

CreateAnchorId(text) == ReplaceRuns(ToLower(text), FALSE)

\* this._turndown.convert(currentHtml): the markdown of the buffered pieces
TurndownConvert(html) == <<"markdown of">> \o html

IntroductionSection(content) ==
    Section(<<"Introduction">>, TRUE, 2, TRUE, <<"introduction">>, content)

\* generateMarkdown, one section: "#" x min(level ?? 0, 6), [title](#id)
\* when the title is not empty, then the content
SectionPart(section) ==
    [hasHeading |-> section.title # <<>>,
     hashes |-> IF section.title = <<>> THEN 0
                ELSE IF (IF section.hasLevel THEN section.level ELSE 0) < 6
                     THEN (IF section.hasLevel THEN section.level ELSE 0)
                     ELSE 6,
     title |-> section.title,
     id |-> IF section.title = <<>> THEN <<>>
            ELSE IF section.hasId THEN section.id ELSE <<"undefined">>,
     content |-> section.content]

\* everything but the Wikipedia converter
wframe == <<cvars, mvars, yvars, evars, svars, pvars, bvars>>

\* parseSections(mainContent) entered
InitWiki ==
    /\ CoreInit
    /\ MdIdle
    /\ YtIdle
    /\ MediaIdle
    /\ SrcIdle
    /\ ParIdle
    /\ BagIdle
    /\ wpc = "walk"
    /\ wroot \in Roots
    /\ wpos = 1
    /\ sections = <<>>
    /\ currentSection = EmptySection
    /\ inLeadSection = TRUE
    /\ currentHtml = <<>>
    /\ markdown = <<>>
    /\ toc = <<>>

AtChild == wpc = "walk" /\ wpos <= Len(wroot)
ThisChild == wroot[wpos]

\* a node without tagName: return
ParseSkip ==
    /\ AtChild
    /\ ThisChild.tagName = <<>>
    /\ wpos' = wpos + 1
    /\ UNCHANGED <<wpc, wroot, sections, currentSection, inLeadSection,
                   currentHtml, markdown, toc>>
    /\ UNCHANGED wframe

\* the section a heading pushes when the buffer is not empty and the lead
\* section is over: { title: currentSection.title, content }
ClosedSection(content) ==
    Section(currentSection.title, FALSE, 0, FALSE, <<>>, content)

\* a heading: close the buffer into a section when it is not empty, then
\* open the heading's own section
ParseHeading ==
    /\ AtChild
    /\ ThisChild.tagName # <<>>
    /\ IsHeadingTag(ThisChild.tagName)
    /\ sections' = IF currentHtml = <<>> THEN sections
                   ELSE IF inLeadSection
                        THEN Append(sections, IntroductionSection(TurndownConvert(currentHtml)))
                        ELSE Append(sections, ClosedSection(TurndownConvert(currentHtml)))
    /\ inLeadSection' = IF currentHtml # <<>> THEN FALSE ELSE inLeadSection
    /\ currentHtml' = <<>>
    /\ currentSection' = Section(HeadingText(ThisChild), TRUE, HeadingLevel(ThisChild),
                                 TRUE, CreateAnchorId(HeadingText(ThisChild)), <<>>)
    /\ wpos' = wpos + 1
    /\ UNCHANGED <<wpc, wroot, markdown, toc>>
    /\ UNCHANGED wframe

\* any other element: currentHtml += outerHTML
ParseBody ==
    /\ AtChild
    /\ ThisChild.tagName # <<>>
    /\ ~IsHeadingTag(ThisChild.tagName)
    /\ currentHtml' = currentHtml \o ThisChild.outerHTML
    /\ wpos' = wpos + 1
    /\ UNCHANGED <<wpc, wroot, sections, currentSection, inLeadSection, markdown, toc>>
    /\ UNCHANGED wframe

\* after the walk: the remaining buffer becomes the last section
ParseFlush ==
    /\ wpc = "walk"
    /\ wpos > Len(wroot)
    /\ sections' = IF currentHtml = <<>> THEN sections
                   ELSE Append(sections,
                               [currentSection EXCEPT !.content = TurndownConvert(currentHtml)])
    /\ wpc' = "parsed"
    /\ UNCHANGED <<wroot, wpos, currentSection, inLeadSection, currentHtml, markdown, toc>>
    /\ UNCHANGED wframe

\* root.querySelectorAll("." + className): the elements carrying the
\* class, in document order
QuerySelectorAll(root, className) ==
    SelectSeq(root, LAMBDA el : \E i \in 1..Len(el.classList) : el.classList[i] = className)

\* el.classList.toString(): the class names joined by one space
RECURSIVE ClassString(_)
ClassString(classList) ==
    IF classList = <<>> THEN <<>>
    ELSE IF Len(classList) = 1 THEN classList[1]
         ELSE classList[1] \o <<" ">> \o ClassString(Tail(classList))

\* String.prototype.endsWith on one character
EndsWith(str, ch) == Len(str) > 0 /\ str[Len(str)] = ch

\* the indentation following the digit of the marker's class: h2 1, h3 2,
\* h4 3
TocLevelByDigit(el) ==
    DigitValue(ClassString(el.classList)[Len(ClassString(el.classList))]) - 1

\* headingClassname.endsWith("2") ? 1 : 2
TocLevel(el) == IF EndsWith(ClassString(el.classList), "2") THEN 1 ELSE 2

\* String.prototype.replace(/\s+/g, "-")
RECURSIVE ReplaceWhitespace(_, _)
ReplaceWhitespace(s, inRun) ==
    IF s = <<>> THEN <<>>
    ELSE IF Head(s) \in {" ", "\n"}
         THEN (IF inRun THEN <<>> ELSE <<"-">>) \o ReplaceWhitespace(Tail(s), TRUE)
         ELSE <<Head(s)>> \o ReplaceWhitespace(Tail(s), FALSE)

\* one line of the list: "  " x headingLevel, " - [text](#id)"
TocEntry(el) ==
    [indent |-> TocLevel(el),
     text |-> Trim(el.textContent),
     id |-> ReplaceWhitespace(ToLower(CreateAnchorId(Trim(el.textContent))), FALSE)]

\* generateTableOfContents(root): one entry per .mw-heading element
GenerateTableOfContents(root) ==
    LET els == QuerySelectorAll(root, MwHeading)
    IN [i \in 1..Len(els) |-> TocEntry(els[i])]

\* generateMarkdown: the table of contents, then the sections in order
GenerateMarkdown ==
    /\ wpc = "parsed"
    /\ toc' = GenerateTableOfContents(wroot)
    /\ markdown' = [i \in 1..Len(sections) |-> SectionPart(sections[i])]
    /\ wpc' = "done"
    /\ UNCHANGED <<wroot, wpos, sections, currentSection, inLeadSection, currentHtml>>
    /\ UNCHANGED wframe

NextWiki ==
    \/ ParseSkip
    \/ ParseHeading
    \/ ParseBody
    \/ ParseFlush
    \/ GenerateMarkdown

SpecWiki == InitWiki /\ [][NextWiki]_vars

\* ------------------------------------------------------------------------
\* Properties of segmentation
\* ------------------------------------------------------------------------

\* the positions of the heading children of the root, in order
HeadingPositions == {i \in 1..Len(wroot) : IsHeadingTag(wroot[i].tagName)}
FirstHeading == CHOOSE i \in HeadingPositions : \A j \in HeadingPositions : i <= j
NthHeading(k) ==
    CHOOSE i \in HeadingPositions : Cardinality({j \in HeadingPositions : j <= i}) = k

\* element children that are not headings come before the first heading
HasLeadContent ==
    /\ HeadingPositions # {}
    /\ \E i \in 1..(FirstHeading - 1) : wroot[i].tagName # <<>>

\* C13: lead content followed by n >= 1 headings, with or without body
\* content after each heading, gives exactly n+1 sections: "Introduction",
\* then one section per heading, titled with the heading's text, in order.
C13_OneSectionPerHeading ==
    (wpc \in {"parsed", "done"} /\ HasLeadContent) =>
        /\ Len(sections) = Cardinality(HeadingPositions) + 1
        /\ sections[1].title = <<"Introduction">>
        /\ \A k \in 1..Cardinality(HeadingPositions) :
               sections[k + 1].title = HeadingText(wroot[NthHeading(k)])

\* C18: a section closed by a later heading, other than the Introduction,
\* carries the title, the level and the anchor id of the heading that
\* opened it, as the section flushed at the end of the walk does.
C18_ClosedSectionKeepsMetadata ==
    [][(wpc = "walk" /\ Len(sections') = Len(sections) + 1 /\ ~inLeadSection) =>
          LET pushed == sections'[Len(sections')]
          IN /\ pushed.title = currentSection.title
             /\ pushed.hasLevel /\ pushed.level = currentSection.level
             /\ pushed.hasId /\ pushed.id = currentSection.id]_vars

\* C27: a section is titled "Introduction" only when it is the first
\* section and its content comes before the first heading of the document;
\* content that follows a heading is never emitted as "Introduction".
C27_IntroductionOnlyForLead ==
    wpc \in {"parsed", "done"} =>
        \A k \in 1..Len(sections) :
            sections[k].title = <<"Introduction">> => (k = 1 /\ HasLeadContent)

\* the positions of the heading-marker elements of the root, in order
MarkerPositions ==
    {i \in 1..Len(wroot) : \E k \in 1..Len(wroot[i].classList) :
                               wroot[i].classList[k] = MwHeading}
NthMarker(k) ==
    CHOOSE i \in MarkerPositions : Cardinality({j \in MarkerPositions : j <= i}) = k

\* the marker carries the class of a level-2 heading
ClassifiedLevel2(el) ==
    LET last == el.classList[Len(el.classList)] IN last[Len(last)] = "2"

\* C22: the table of contents has one entry per heading-marker element of
\* the root, in document order, whatever sections segmentation produced;
\* each entry is at one of two depths: the top-level depth when the marker
\* is classified as level 2, the one nested depth for every other marker,
\* however deep.
C22_TocTwoDepths ==
    wpc = "done" =>
        /\ Len(toc) = Cardinality(MarkerPositions)
        /\ \A k \in 1..Len(toc) :
              /\ toc[k].text = Trim(wroot[NthMarker(k)].textContent)
              /\ toc[k].indent \in {1, 2}
              /\ toc[k].indent = 1 <=> ClassifiedLevel2(wroot[NthMarker(k)])

\* a page with markers of levels 2, 3 and 4, the last two at the same
\* depth, and a number of sections different from the number of entries
C22_Witness ==
    /\ wpc = "done"
    /\ Len(toc) = 3
    /\ toc[1].indent = 1 /\ toc[1].text = <<"B">>
    /\ toc[2].indent = 2 /\ toc[2].text = <<"H">>
    /\ toc[3].indent = 2 /\ toc[3].text = <<"I">>
    /\ Len(sections) # Len(toc)

\* ------------------------------------------------------------------------
\* YouTubeConverter: the transcript lookup and its retries
\* ------------------------------------------------------------------------

\* retryOperation(operation, 3, 2000)
Retries == 3
Delay == 2000

\* the page: with or without a title; the url is a watch url with a "v"
\* parameter, a shorts url with an id, or a shorts url that ends in "/"
YtInputs ==
    { [hasTitle |-> t, videoId |-> v[1], shortId |-> v[2]] :
        t \in BOOLEAN,
        v \in { <<<<"v1">>, <<"watch">>>>, <<<<>>, <<"s1">>>>, <<<<>>, <<>>>> } }

\* what a lookup can give: the <text> elements of the response, or an error
TranscriptTexts == { <<>>, <<"a">>, <<"a", "b">> }
LookupErrors == { <<"ECONNRESET">>, <<"status 404">> }

\* transcriptTexts.join(" ")
RECURSIVE JoinSpace(_)
JoinSpace(texts) ==
    IF texts = <<>> THEN <<>>
    ELSE IF Len(texts) = 1 THEN <<texts[1]>>
         ELSE <<texts[1], " ">> \o JoinSpace(Tail(texts))

\* what ylog holds
LookupEvent(ok) == [kind |-> "lookup", ok |-> ok, ms |-> 0]
SleepEvent(ms) == [kind |-> "sleep", ok |-> FALSE, ms |-> ms]

\* everything but the YouTube converter
yframe == <<cvars, mvars, wvars, evars, svars, pvars, bvars>>

\* convert, the page parsed and the metadata text built
InitYt ==
    /\ CoreInit
    /\ MdIdle
    /\ WikiIdle
    /\ MediaIdle
    /\ SrcIdle
    /\ ParIdle
    /\ BagIdle
    /\ ypc = "lookup"
    /\ yin \in YtInputs
    /\ attempt = 0
    /\ lastError = <<>>
    /\ transcriptText = <<>>
    /\ ylog = <<>>
    /\ yret = NoYtResult

\* if (videoId || shortId) is false: no lookup
YtNoId ==
    /\ ypc = "lookup"
    /\ yin.videoId = <<>> /\ yin.shortId = <<>>
    /\ ypc' = "compose"
    /\ UNCHANGED <<yin, attempt, lastError, transcriptText, ylog, yret>>
    /\ UNCHANGED yframe

\* retryOperation entered: attempt = 0
YtRetryOperation ==
    /\ ypc = "lookup"
    /\ yin.videoId # <<>> \/ yin.shortId # <<>>
    /\ attempt' = 0
    /\ ypc' = "attempt"
    /\ UNCHANGED <<yin, lastError, transcriptText, ylog, yret>>
    /\ UNCHANGED yframe

\* the operation returned: transcriptText is set, retryOperation returns
YtAttemptOk(texts) ==
    /\ ypc = "attempt"
    /\ attempt < Retries
    /\ transcriptText' = JoinSpace(texts)
    /\ ylog' = Append(ylog, LookupEvent(TRUE))
    /\ ypc' = "compose"
    /\ UNCHANGED <<yin, attempt, lastError, yret>>
    /\ UNCHANGED yframe

\* the catch of an attempt that sleeps after the last attempt as well
YtAttemptFailAlwaysSleeps(error) ==
    /\ ypc = "attempt"
    /\ attempt < Retries
    /\ lastError' = error
    /\ ylog' = Append(ylog, LookupEvent(FALSE))
    /\ ypc' = "sleep"
    /\ UNCHANGED <<yin, attempt, transcriptText, yret>>
    /\ UNCHANGED yframe

\* the operation threw: lastError = err, and a delay follows unless this
\* was the last attempt
YtAttemptFail(error) ==
    /\ ypc = "attempt"
    /\ attempt < Retries
    /\ lastError' = error
    /\ ylog' = Append(ylog, LookupEvent(FALSE))
    /\ IF attempt < Retries - 1
       THEN ypc' = "sleep" /\ attempt' = attempt
       ELSE ypc' = "attempt" /\ attempt' = attempt + 1
    /\ UNCHANGED <<yin, transcriptText, yret>>
    /\ UNCHANGED yframe

\* await new Promise(resolve => setTimeout(resolve, delay)); attempt++
YtSleep ==
    /\ ypc = "sleep"
    /\ ylog' = Append(ylog, SleepEvent(Delay))
    /\ attempt' = attempt + 1
    /\ ypc' = "attempt"
    /\ UNCHANGED <<yin, lastError, transcriptText, yret>>
    /\ UNCHANGED yframe

\* the loop is over: retryOperation throws, convert catches and logs
YtExhausted ==
    /\ ypc = "attempt"
    /\ attempt >= Retries
    /\ ypc' = "compose"
    /\ UNCHANGED <<yin, attempt, lastError, transcriptText, ylog, yret>>
    /\ UNCHANGED yframe

\* the "### Transcript" part when transcriptText is not empty; return
YtReturn ==
    /\ ypc = "compose"
    /\ yret' = [returned |-> TRUE,
                title |-> IF yin.hasTitle THEN <<"title">> ELSE <<>>,
                parts |-> <<"# YouTube">>
                          \o (IF yin.hasTitle THEN <<"## title">> ELSE <<>>)
                          \o (IF transcriptText # <<>>
                              THEN <<"### Transcript">> \o transcriptText
                              ELSE <<>>)]
    /\ ypc' = "done"
    /\ UNCHANGED <<yin, attempt, lastError, transcriptText, ylog>>
    /\ UNCHANGED yframe

NextYt ==
    \/ YtNoId
    \/ YtRetryOperation
    \/ \E texts \in TranscriptTexts : YtAttemptOk(texts)
    \/ \E error \in LookupErrors : YtAttemptFail(error)
    \/ YtSleep
    \/ YtExhausted
    \/ YtReturn

SpecYt == InitYt /\ [][NextYt]_vars

\* ------------------------------------------------------------------------
\* Properties of the transcript lookup
\* ------------------------------------------------------------------------

Lookups == {i \in 1..Len(ylog) : ylog[i].kind = "lookup"}
Sleeps == {i \in 1..Len(ylog) : ylog[i].kind = "sleep"}

\* C19: the transcript lookup is attempted at most 3 times, with a fixed
\* 2000 ms delay between consecutive attempts and none after the last; it
\* stops at the first attempt that succeeds; when all attempts fail the
\* conversion still returns a result, without a transcript section.
C19_BoundedRetry ==
    /\ Cardinality(Lookups) <= 3
    /\ \A i \in Sleeps : ylog[i].ms = 2000
    \* lookups and delays alternate, a lookup first
    /\ \A i \in 1..Len(ylog) : (i \in Lookups) <=> (i % 2 = 1)
    \* nothing follows a lookup that succeeded
    /\ \A i \in Lookups : ylog[i].ok => i = Len(ylog)
    \* the lookup over, the last event is a lookup, not a delay
    /\ (ypc \in {"compose", "done"} /\ ylog # <<>>) => Len(ylog) \in Lookups
    \* a delay is followed by another lookup
    /\ (ypc = "attempt" /\ ylog # <<>>) =>
           (Len(ylog) \in Sleeps \/ attempt >= 3)
    /\ ypc = "done" =>
           /\ yret.returned
           /\ (\A i \in Lookups : ~ylog[i].ok) =>
                  \A k \in 1..Len(yret.parts) : yret.parts[k] # "### Transcript"

\* three lookups failed, two delays were slept, and convert returned
C19_Witness ==
    /\ ypc = "done"
    /\ Cardinality(Lookups) = 3
    /\ Cardinality(Sleeps) = 2
    /\ \A i \in Lookups : ~ylog[i].ok
    /\ yret.returned

\* ------------------------------------------------------------------------
\* Media converters: AudioConverter, VideoConverter, ImageConverter
\* ------------------------------------------------------------------------

DotMp3 == <<".", "m", "p", "3">>
DotMp3Upper == <<".", "M", "P", "3">>
DotMp4 == <<".", "m", "p", "4">>
DotMp4Upper == <<".", "M", "P", "4">>
DotPng == <<".", "p", "n", "g">>
DotPngUpper == <<".", "P", "N", "G">>

\* supportedAudioExtensions, supportedVideoExtensions, the image extensions
\* (one of each list)
SupportedAudioExtensions == {DotMp3}
SupportedVideoExtensions == {DotMp4}
SupportedImageExtensions == {DotPng}

\* the extension test of each convert: the video converter does not
\* lowercase the extension
Supported(conv, ext) ==
    CASE conv = "audio" -> ToLower(ext) \in SupportedAudioExtensions
      [] conv = "video" -> ext \in SupportedVideoExtensions
      [] conv = "image" -> ToLower(ext) \in SupportedImageExtensions

\* options.llmCall: not a function, or a function that returns a text,
\* returns "", returns null, or throws
LlmKinds == {"absent", "text", "empty", "null", "throws"}

\* what the exiftool read gives: an error, no known field, a Title
MetaKinds == {"error", "empty", "title"}

MediaInputs ==
    UNION { { [conv |-> c[1], ext |-> e, llm |-> l, capable |-> cap, meta |-> m] :
                e \in c[2], l \in LlmKinds, cap \in BOOLEAN, m \in MetaKinds } :
            c \in { <<"audio", {DotMp3, DotMp3Upper, DotMp4}>>,
                    <<"video", {DotMp4, DotMp4Upper, DotMp3}>>,
                    <<"image", {DotPng, DotPngUpper, DotTxt}>> } }

\* a value that may be null
Null == [isNull |-> TRUE, text |-> <<>>]
Value(text) == [isNull |-> FALSE, text |-> text]
Truthy(v) == ~v.isNull /\ v.text # <<>>

\* await llmCall(...) inside the try of _transcribeAudio / of
\* _getLlmDescription: null when llmCall is not a function or throws
LlmAnswer(llm) ==
    CASE llm = "text" -> Value(<<"words">>)
      [] llm = "empty" -> Value(<<>>)
      [] OTHER -> Null

NoSpeech == "[No speech detected]"

\* everything but the media converters
eframe == <<cvars, mvars, wvars, yvars, svars, pvars, bvars>>

InitMedia ==
    /\ CoreInit
    /\ MdIdle
    /\ WikiIdle
    /\ YtIdle
    /\ MediaIdle
    /\ SrcIdle
    /\ ParIdle
    /\ BagIdle

\* convert(localPath, options) with an extension the converter does not
\* take: return null
MediaNotApplicable(input) ==
    /\ epc \in {"idle", "done"}
    /\ ~Supported(input.conv, input.ext)
    /\ ein' = input
    /\ etmp' = FALSE
    /\ ecalls' = 0
    /\ emd' = <<>>
    /\ eret' = [kind |-> "null", text |-> <<>>]
    /\ epc' = "done"
    /\ UNCHANGED exif
    /\ UNCHANGED eframe

\* convert(localPath, options) with a supported extension: mdContent = ""
MediaConvert(input) ==
    /\ epc \in {"idle", "done"}
    /\ Supported(input.conv, input.ext)
    /\ ein' = input
    /\ etmp' = FALSE
    /\ ecalls' = 0
    /\ emd' = <<>>
    /\ eret' = NoMediaResult
    /\ epc' = "metadata"
    /\ UNCHANGED exif
    /\ UNCHANGED eframe

\* exiftool.read(localPath) on the shared exiftool object: what the file
\* holds while the object is running; once end() was called it accepts no
\* request and the read rejects
ExiftoolRead(state, meta) == IF state = "ended" THEN "error" ELSE meta

\* _getMetadata: exiftool.read in try / catch, exiftool.end() in finally;
\* then the lines of the fields found
GetMetadata ==
    /\ epc = "metadata"
    /\ exif' = "ended"
    /\ emd' = IF ExiftoolRead(exif, ein.meta) = "title"
              THEN <<"- **Title**: t", "\n">> ELSE <<>>
    /\ epc' = CASE ein.conv = "audio" -> "transcribe"
                [] ein.conv = "video" ->
                       IF ein.llm # "absent" /\ ein.capable THEN "ffmpeg" ELSE "return"
                [] ein.conv = "image" -> "ocr"
    /\ UNCHANGED <<ein, etmp, ecalls, eret>>
    /\ UNCHANGED eframe

\* AudioConverter: _transcribeAudio, then the transcript or the placeholder
AudioTranscribe ==
    /\ epc = "transcribe"
    /\ ecalls' = IF ein.llm = "absent" THEN ecalls ELSE ecalls + 1
    /\ emd' = emd \o <<"\n", "# Audio Transcript:", "\n", "\n">>
                  \o (IF Truthy(LlmAnswer(ein.llm))
                      THEN LlmAnswer(ein.llm).text ELSE <<NoSpeech>>)
    /\ epc' = "return"
    /\ UNCHANGED <<ein, exif, etmp, eret>>
    /\ UNCHANGED eframe

\* VideoConverter: Ffmpeg(localPath).toFormat("wav").save(tempPath); an
\* error is caught and logged.  tempPath is only a name until ffmpeg writes
\* it: after an error the file may or may not exist.
VideoFfmpeg(fileWritten) ==
    /\ epc = "ffmpeg"
    /\ etmp' = fileWritten
    /\ epc' = "vtranscribe"
    /\ UNCHANGED <<ein, exif, ecalls, emd, eret>>
    /\ UNCHANGED eframe

\* VideoConverter: super._transcribeAudio, then the transcript or the
\* placeholder
VideoTranscribe ==
    /\ epc = "vtranscribe"
    /\ ecalls' = ecalls + 1
    /\ emd' = emd \o <<"\n", "\n", "### Audio Transcript:", "\n">>
                  \o (IF Truthy(LlmAnswer(ein.llm))
                      THEN LlmAnswer(ein.llm).text ELSE <<NoSpeech>>)
    /\ epc' = "unlink"
    /\ UNCHANGED <<ein, exif, etmp, eret>>
    /\ UNCHANGED eframe

\* finally { fs.unlinkSync(tempPath) } with the file there
VideoUnlink ==
    /\ epc = "unlink"
    /\ etmp
    /\ etmp' = FALSE
    /\ epc' = "return"
    /\ UNCHANGED <<ein, exif, ecalls, emd, eret>>
    /\ UNCHANGED eframe

\* finally { fs.unlinkSync(tempPath) } with no file: ENOENT is thrown out
\* of convert
VideoUnlinkThrows ==
    /\ epc = "unlink"
    /\ ~etmp
    /\ eret' = [kind |-> "throw", text |-> <<"ENOENT">>]
    /\ epc' = "done"
    /\ UNCHANGED <<ein, exif, etmp, ecalls, emd>>
    /\ UNCHANGED eframe

\* ImageConverter: tesseract.recognize in try / catch
ImageOcr(recognized) ==
    /\ epc = "ocr"
    /\ emd' = IF recognized THEN emd \o <<"\n", "# Text:", "\n", "\n", "ocr">> ELSE emd
    /\ epc' = "describe"
    /\ UNCHANGED <<ein, exif, etmp, ecalls, eret>>
    /\ UNCHANGED eframe

\* ImageConverter: _getLlmDescription; the description is added when it
\* is not empty, nothing otherwise
ImageDescribe ==
    /\ epc = "describe"
    /\ ecalls' = IF ein.llm = "absent" THEN ecalls ELSE ecalls + 1
    /\ emd' = IF Truthy(LlmAnswer(ein.llm))
              THEN emd \o <<"\n", "\n", "# Description:", "\n", "\n">>
                       \o Trim(LlmAnswer(ein.llm).text)
              ELSE emd
    /\ epc' = "return"
    /\ UNCHANGED <<ein, exif, etmp, eret>>
    /\ UNCHANGED eframe

\* return { title: null, textContent }: trimmed by the audio and video
\* converters, as it is by the image converter
MediaReturn ==
    /\ epc = "return"
    /\ eret' = [kind |-> "result",
                text |-> IF ein.conv = "image" THEN emd ELSE Trim(emd)]
    /\ epc' = "done"
    /\ UNCHANGED <<ein, exif, etmp, ecalls, emd>>
    /\ UNCHANGED eframe

NextMedia ==
    \/ \E input \in MediaInputs : MediaNotApplicable(input)
    \/ \E input \in MediaInputs : MediaConvert(input)
    \/ GetMetadata
    \/ AudioTranscribe
    \/ \E fileWritten \in BOOLEAN : VideoFfmpeg(fileWritten)
    \/ VideoTranscribe
    \/ VideoUnlink
    \/ VideoUnlinkThrows
    \/ \E recognized \in BOOLEAN : ImageOcr(recognized)
    \/ ImageDescribe
    \/ MediaReturn

SpecMedia == InitMedia /\ [][NextMedia]_vars

\* ------------------------------------------------------------------------
\* Properties of the media converters
\* ------------------------------------------------------------------------

Placeholders == {NoSpeech, "Error. Could not transcribe this audio."}

\* C15: when llmCall throws or returns null during an audio, video or
\* image conversion, the converter still returns a result, nothing is
\* thrown out of it, and the text holds a placeholder where the transcript
\* or the caption would be.
C15_EnrichmentFailureGivesPlaceholder ==
    (epc = "done" /\ ecalls > 0 /\ ein.llm \in {"null", "throws"}) =>
        /\ eret.kind = "result"
        /\ \E i \in 1..Len(eret.text) : eret.text[i] \in Placeholders

\* C29: whatever media conversions came before in the process, a media
\* file whose metadata holds a title is converted to a text that has the
\* title line: the metadata read of a later conversion works as the first
\* one did.
C29_MetadataAvailableEveryTime ==
    (epc = "done" /\ eret.kind = "result" /\ ein.meta = "title") =>
        \E i \in 1..Len(eret.text) : eret.text[i] = "- **Title**: t"

\* ------------------------------------------------------------------------
\* MarkItDown.convert: convertUrl, convertResponse, convertStream
\* ------------------------------------------------------------------------

\* tmp.tmpNameSync / tmp.fileSync({ prefix: "markitdownjs-", postfix: ".html" })
TempPath == << <<"m", "-", "1", ".", "h", "t", "m", "l">> >>

\* source.startsWith(prefix)
StartsWith(source, prefix) ==
    /\ Len(source) >= Len(prefix)
    /\ SubSeq(source, 1, Len(prefix)) = prefix

HttpPrefix == <<"h", "t", "t", "p", ":", "/", "/">>
HttpsPrefix == <<"h", "t", "t", "p", "s", ":", "/", "/">>
FilePrefix == <<"f", "i", "l", "e", ":", "/", "/">>

\* the sources: a read stream, or a string (three URLs, a text file, a
\* file of an unknown kind, a text file that cannot be read)
SrcSources ==
    { [stream |-> TRUE, str |-> <<>>, readable |-> TRUE],
      [stream |-> FALSE, str |-> HttpPrefix \o <<"h">>, readable |-> TRUE],
      [stream |-> FALSE, str |-> HttpsPrefix \o <<"h">>, readable |-> TRUE],
      [stream |-> FALSE, str |-> FilePrefix \o <<"/", "a">>, readable |-> TRUE],
      [stream |-> FALSE, str |-> <<"n", ".", "t", "x", "t">>, readable |-> TRUE],
      [stream |-> FALSE, str |-> <<"x", ".", "b", "i", "n">>, readable |-> TRUE],
      [stream |-> FALSE, str |-> <<"u", ".", "t", "x", "t">>, readable |-> FALSE] }

\* convert: /^https?:\/\//.test(source) || source.startsWith("file://")
\* sends a string to convertUrl, any other string to convertLocal, a
\* ReadStream to convertStream
SourceKind(source) ==
    IF source.stream THEN "stream"
    ELSE IF \/ StartsWith(source.str, HttpPrefix)
            \/ StartsWith(source.str, HttpsPrefix)
            \/ StartsWith(source.str, FilePrefix)
         THEN "url"
         ELSE "local"

\* options.fileExtension: not given, or given
DeclaredExtensions == {<<>>, DotTxt, DotBin, DotHtml}

UnsupportedFormat == "unsupported format"

\* what _convert(localPath, extensions, options) settles with: the object
\* of the first converter of the sorted copy, extension by extension, that
\* returns one (a converter that throws is passed over); the
\* unsupported-format error when there is none
DispatchOutcome(extensions, readable) ==
    LET sorted == SortByPriority(registry, converters)
        hits == { p \in (1..Len(extensions)) \X (1..Len(sorted)) :
                    ConvOutcome(converters[sorted[p[2]]].kind, extensions[p[1]],
                                readable) = "result" }
        first == CHOOSE p \in hits : \A q \in hits :
                     p[1] < q[1] \/ (p[1] = q[1] /\ p[2] <= q[2])
    IN IF hits = {} THEN Settled("throw", UnsupportedFormat, NoConv)
       ELSE Settled("result", "none", sorted[first[2]])

\* the converter invocations _convert(localPath, extensions, options)
\* makes: extension by extension, the converters of the sorted copy up to
\* and including the first that returns an object
Tried(extensions, readable) ==
    LET sorted == SortByPriority(registry, converters)
        n == Len(sorted)
        all == [k \in 1..(Len(extensions) * n) |->
                   [ext |-> extensions[((k - 1) \div n) + 1],
                    conv |-> sorted[((k - 1) % n) + 1]]]
        hits == {k \in 1..Len(all) :
                    ConvOutcome(converters[all[k].conv].kind, all[k].ext, readable)
                        = "result"}
    IN IF hits = {} THEN all
       ELSE SubSeq(all, 1, CHOOSE k \in hits : \A j \in hits : k <= j)

\* everything but the call on a source
sframe == <<cvars, mvars, wvars, yvars, evars, pvars, bvars>>

InitSrc ==
    /\ CoreInit
    /\ MdIdle
    /\ WikiIdle
    /\ YtIdle
    /\ MediaIdle
    /\ SrcIdle
    /\ ParIdle
    /\ BagIdle

\* convert(source, options): the branch on the kind of source.  A URL goes
\* to convertUrl, a stream to convertStream (tmp.fileSync creates the
\* file), a path to convertLocal.
SrcConvert(source, fileExtension) ==
    /\ spc \in {"idle", "done"}
    /\ sreq' = [kind |-> SourceKind(source), path |-> <<source.str>>,
                readable |-> source.readable, fileExtension |-> fileExtension]
    /\ sfloat' = <<>>
    /\ sres' = NotSettled
    /\ stmp' = IF SourceKind(source) = "stream" THEN "exists" ELSE "none"
    /\ spc' = CASE SourceKind(source) = "url" -> "get"
                [] SourceKind(source) = "stream" -> "pipe"
                [] SourceKind(source) = "local" -> "local"
    /\ sinv' = <<>>
    /\ UNCHANGED sframe

\* convertLocal: _convert(filePath, _determineExtensions(filePath, options))
SrcConvertLocal ==
    /\ spc = "local"
    /\ sres' = DispatchOutcome(DetermineExtensions(sreq.path, sreq.fileExtension),
                               sreq.readable)
    /\ spc' = "done"
    /\ sinv' = sinv \o Tried(DetermineExtensions(sreq.path, sreq.fileExtension),
                            sreq.readable)
    /\ UNCHANGED <<sreq, stmp, sfloat>>
    /\ UNCHANGED sframe

\* convertUrl: await this._requestsSession.get(url) rejects; nothing
\* catches it
SrcGetFails ==
    /\ spc = "get"
    /\ sres' = Settled("throw", "network failure", NoConv)
    /\ spc' = "done"
    /\ UNCHANGED <<sreq, stmp, sfloat, sinv>>
    /\ UNCHANGED sframe

\* convertUrl: the response arrives; convertResponse: tmp.tmpNameSync
SrcGetOk ==
    /\ spc = "get"
    /\ stmp' = "named"
    /\ spc' = "write"
    /\ UNCHANGED <<sreq, sfloat, sres, sinv>>
    /\ UNCHANGED sframe

\* convertResponse: the writer finishes
SrcWriteFinish ==
    /\ spc = "write"
    /\ stmp' = "exists"
    /\ spc' = "dispatch"
    /\ UNCHANGED <<sreq, sfloat, sres, sinv>>
    /\ UNCHANGED sframe

\* convertResponse: the writer fails, before or after it created the
\* file; the catch logs and returns null
SrcWriteError(created) ==
    /\ spc = "write"
    /\ stmp' = IF created THEN "exists" ELSE "named"
    /\ sres' = Settled("null", "none", NoConv)
    /\ spc' = "done"
    /\ UNCHANGED <<sreq, sfloat, sinv>>
    /\ UNCHANGED sframe

\* convertResponse: return this._convert(tempFile, ...).finally(unlink):
\* the dispatch settles, the file is removed, the call settles as the
\* dispatch did
SrcResponseDispatch ==
    /\ spc = "dispatch"
    /\ sres' = DispatchOutcome(DetermineExtensions(TempPath, sreq.fileExtension), TRUE)
    /\ stmp' = "deleted"
    /\ spc' = "done"
    /\ sinv' = sinv \o Tried(DetermineExtensions(TempPath, sreq.fileExtension), TRUE)
    /\ UNCHANGED <<sreq, sfloat>>
    /\ UNCHANGED sframe

\* convertStream: the source stream ends
SrcPipeEnd ==
    /\ spc = "pipe"
    /\ spc' = "launch"
    /\ UNCHANGED <<sreq, stmp, sfloat, sres, sinv>>
    /\ UNCHANGED sframe

\* convertStream: the source stream fails: the promise rejects, finally
\* removes the file, the rejection reaches the caller
SrcPipeError ==
    /\ spc = "pipe"
    /\ stmp' = "deleted"
    /\ sres' = Settled("throw", "stream failure", NoConv)
    /\ spc' = "done"
    /\ UNCHANGED <<sreq, sfloat, sinv>>
    /\ UNCHANGED sframe

\* convertStream: guessedExtensions.forEach(ext => this._convert(tempPath,
\* [ext], options)): dispatches started and not awaited
SrcLaunch ==
    /\ spc = "launch"
    /\ LET guessed == DetermineExtensions(TempPath, sreq.fileExtension)
       IN sfloat' = [i \in 1..Len(guessed) |->
                        [extensions |-> <<guessed[i]>>, state |-> "pending",
                         result |-> NotSettled]]
    /\ spc' = "await"
    /\ UNCHANGED <<sreq, stmp, sres, sinv>>
    /\ UNCHANGED sframe

\* a dispatch that was not awaited settles, whenever it does: when the
\* file is gone by then its converters cannot read it
SrcFloatSettles ==
    /\ spc \in {"await", "cleanup", "done"}
    /\ \E i \in 1..Len(sfloat) :
          /\ sfloat[i].state = "pending"
          /\ sfloat' = [sfloat EXCEPT ![i].state = "settled",
                                      ![i].result = DispatchOutcome(sfloat[i].extensions,
                                                                    stmp = "exists")]
          /\ sinv' = sinv \o Tried(sfloat[i].extensions, stmp = "exists")
    /\ UNCHANGED <<spc, sreq, stmp, sres>>
    /\ UNCHANGED sframe

\* convertStream: result = await this._convert(tempPath, extensions,
\* options), extensions being the declared one or none
SrcAwaitDispatch ==
    /\ spc = "await"
    /\ sres' = DispatchOutcome(IF sreq.fileExtension # <<>>
                               THEN <<sreq.fileExtension>> ELSE <<>>, TRUE)
    /\ spc' = "cleanup"
    /\ sinv' = sinv \o Tried(IF sreq.fileExtension # <<>>
                            THEN <<sreq.fileExtension>> ELSE <<>>, TRUE)
    /\ UNCHANGED <<sreq, stmp, sfloat>>
    /\ UNCHANGED sframe

\* convertStream: finally { fs.unlinkSync(tempPath) }, then return result
\* or rethrow
SrcCleanup ==
    /\ spc = "cleanup"
    /\ stmp' = "deleted"
    /\ spc' = "done"
    /\ UNCHANGED <<sreq, sfloat, sres, sinv>>
    /\ UNCHANGED sframe

NextSrc ==
    \/ \E source \in SrcSources, fe \in DeclaredExtensions : SrcConvert(source, fe)
    \/ SrcConvertLocal
    \/ SrcGetFails
    \/ SrcGetOk
    \/ SrcWriteFinish
    \/ \E created \in BOOLEAN : SrcWriteError(created)
    \/ SrcResponseDispatch
    \/ SrcPipeEnd
    \/ SrcPipeError
    \/ SrcLaunch
    \/ SrcFloatSettles
    \/ SrcAwaitDispatch
    \/ SrcCleanup

SpecSrc == InitSrc /\ [][NextSrc]_vars

\* ------------------------------------------------------------------------
\* Properties of convert on a source
\* ------------------------------------------------------------------------

\* C14: for a URL, a local path or a read stream, the only error that
\* reaches the caller of convert is the unsupported-format error; a network
\* failure, a failure writing the scratch file, a converter failure are
\* never thrown to the caller.
C14_OnlyUnsupportedFormatThrown ==
    (spc = "done" /\ sres.type = "throw") => sres.err = UnsupportedFormat

\* C16: when convertStream or convertResponse has settled, on the success
\* path and on every failure path, the temporary file it created does not
\* exist.
C16_TempFileDeleted ==
    spc = "done" => stmp # "exists"

\* the call is convertStream and has passed the pipe
StreamCall == sreq.kind = "stream"

\* C23: in convertStream every dispatch started on the temporary file has
\* settled before the file is deleted and before the call settles, and none
\* of them ends in a rejection that nothing observes.
C23_NoDispatchOutlivesCleanup ==
    (StreamCall /\ (stmp = "deleted" \/ spc = "done")) =>
        \A i \in 1..Len(sfloat) :
            /\ sfloat[i].state = "settled"
            /\ sfloat[i].result.type # "throw"

\* C24: one convertStream call with a declared extension invokes each
\* registered converter at most once for that extension.
C24_ConverterInvokedOnce ==
    (StreamCall /\ sreq.fileExtension # <<>>) =>
        \A i, j \in 1..Len(sinv) :
            (sinv[i].conv = sinv[j].conv /\ sinv[i].ext = sinv[j].ext) => i = j

\* C25: what convertStream returns is the outcome of dispatching the
\* temporary file with the extensions _determineExtensions chooses: the
\* declared extension, the extension of the temporary file when none is
\* declared.
C25_StreamUsesDeterminedExtensions ==
    (StreamCall /\ spc = "done" /\ sres.err # "stream failure") =>
        sres = DispatchOutcome(DetermineExtensions(TempPath, sreq.fileExtension), TRUE)

\* ------------------------------------------------------------------------
\* Two archive conversions in flight at the same time
\* ------------------------------------------------------------------------

HiTxt == <<"h", ".", "t", "x", "t">>
KTxt == <<"k", ".", "t", "x", "t">>
MTxt == <<"m", ".", "t", "x", "t">>

\* every entry name, in the order readdirSync lists names
EntryNames == <<HiTxt, KTxt, MTxt>>

\* the archives: d/a.zip, d/a (converted with fileExtension ".zip"), and
\* e/a.zip, with the text entries they hold
ParArchives ==
    { [path |-> << <<"d">>, <<"a", ".", "z", "i", "p">> >>, entries |-> <<HiTxt, KTxt>>],
      [path |-> << <<"d">>, <<"a">> >>, entries |-> <<KTxt, MTxt>>],
      [path |-> << <<"e">>, <<"a", ".", "z", "i", "p">> >>, entries |-> <<HiTxt>>] }

\* the extraction directory of call p
ParDir(p) == ExtractionDir(parch[p].path)

\* the path is below the directory
Under(dir, path) ==
    /\ Len(path) > Len(dir)
    /\ SubSeq(path, 1, Len(dir)) = dir

\* fs.readdirSync(dir): the names of the files in the directory
ReadDir(dir) ==
    SelectSeq(EntryNames, LAMBDA name : PathJoin(dir, name) \in pfiles)

\* everything but the two calls
pframe == <<cvars, mvars, wvars, yvars, evars, svars, bvars>>

InitPar ==
    /\ CoreInit
    /\ MdIdle
    /\ WikiIdle
    /\ YtIdle
    /\ MediaIdle
    /\ SrcIdle
    /\ ParIdle
    /\ BagIdle

\* ZipConverter.convert(localPath, { fileExtension: ".zip", parentConverters }):
\* extractionDir and mdContent are set up, the extraction starts
ParBegin(p, arch) ==
    /\ ppc[p] = "idle"
    /\ parch' = [parch EXCEPT ![p] = arch]
    /\ plist' = [plist EXCEPT ![p] = <<>>]
    /\ pidx' = [pidx EXCEPT ![p] = 0]
    /\ pcontent' = [pcontent EXCEPT ![p] = <<>>]
    /\ pret' = [pret EXCEPT ![p] = "none"]
    /\ ppc' = [ppc EXCEPT ![p] = "extract"]
    /\ UNCHANGED <<pdirs, pfiles>>
    /\ UNCHANGED pframe

\* the extraction promise resolves: the directory and the entries are on
\* disk
ParExtract(p) ==
    /\ ppc[p] = "extract"
    /\ pdirs' = pdirs \cup {ParDir(p)}
    /\ pfiles' = pfiles \cup {PathJoin(ParDir(p), parch[p].entries[i]) :
                                 i \in 1..Len(parch[p].entries)}
    /\ ppc' = [ppc EXCEPT ![p] = "list"]
    /\ UNCHANGED <<parch, plist, pidx, pcontent, pret>>
    /\ UNCHANGED pframe

\* processDirectory: fs.readdirSync(extractionDir); it throws when the
\* directory is gone, and the catch of convert returns the "[ERROR]" text
ParReadDir(p) ==
    /\ ppc[p] = "list"
    /\ IF ParDir(p) \in pdirs
       THEN /\ plist' = [plist EXCEPT ![p] = ReadDir(ParDir(p))]
            /\ pidx' = [pidx EXCEPT ![p] = 1]
            /\ ppc' = [ppc EXCEPT ![p] = "walk"]
            /\ UNCHANGED pret
       ELSE /\ pret' = [pret EXCEPT ![p] = "failed"]
            /\ ppc' = [ppc EXCEPT ![p] = "done"]
            /\ UNCHANGED <<plist, pidx>>
    /\ UNCHANGED <<parch, pcontent, pdirs, pfiles>>
    /\ UNCHANGED pframe

\* processDirectory, one file: the built-in converters are tried;
\* PlainTextConverter returns the text, or throws when the file is gone
\* and the catch of convert returns the "[ERROR]" text
ParEntry(p) ==
    /\ ppc[p] = "walk"
    /\ pidx[p] <= Len(plist[p])
    /\ LET name == plist[p][pidx[p]]
           out == ConvOutcome("PlainText", ExtName(name),
                              PathJoin(ParDir(p), name) \in pfiles)
       IN IF out = "throw"
          THEN /\ pret' = [pret EXCEPT ![p] = "failed"]
               /\ ppc' = [ppc EXCEPT ![p] = "done"]
               /\ UNCHANGED <<pidx, pcontent>>
          ELSE /\ pcontent' = [pcontent EXCEPT ![p] =
                                  IF out = "result" THEN Append(@, name) ELSE @]
               /\ pidx' = [pidx EXCEPT ![p] = @ + 1]
               /\ UNCHANGED <<ppc, pret>>
    /\ UNCHANGED <<parch, plist, pdirs, pfiles>>
    /\ UNCHANGED pframe

\* fs.rmSync(extractionDir, { recursive: true, force: true }) and return
\* the collected text
ParCleanup(p) ==
    /\ ppc[p] = "walk"
    /\ pidx[p] > Len(plist[p])
    /\ pdirs' = pdirs \ {ParDir(p)}
    /\ pfiles' = {f \in pfiles : ~Under(ParDir(p), f)}
    /\ pret' = [pret EXCEPT ![p] = "content"]
    /\ ppc' = [ppc EXCEPT ![p] = "done"]
    /\ UNCHANGED <<parch, plist, pidx, pcontent>>
    /\ UNCHANGED pframe

\* the caller has the result; the next conversion can start
ParFinish(p) ==
    /\ ppc[p] = "done"
    /\ ppc' = [ppc EXCEPT ![p] = "idle"]
    /\ parch' = [parch EXCEPT ![p] = NoArchive]
    /\ plist' = [plist EXCEPT ![p] = <<>>]
    /\ pidx' = [pidx EXCEPT ![p] = 0]
    /\ pcontent' = [pcontent EXCEPT ![p] = <<>>]
    /\ pret' = [pret EXCEPT ![p] = "none"]
    /\ UNCHANGED <<pdirs, pfiles>>
    /\ UNCHANGED pframe

NextPar ==
    \/ \E p \in Procs, arch \in ParArchives : ParBegin(p, arch)
    \/ \E p \in Procs : ParExtract(p)
    \/ \E p \in Procs : ParReadDir(p)
    \/ \E p \in Procs : ParEntry(p)
    \/ \E p \in Procs : ParCleanup(p)
    \/ \E p \in Procs : ParFinish(p)

SpecPar == InitPar /\ [][NextPar]_vars

\* the call has set up its extraction directory and not yet removed it
ParInFlight(p) == ppc[p] \in {"extract", "list", "walk"}

\* C26: two archive conversions in flight at the same time have different
\* extraction directories, and the files a conversion still has to walk are
\* on disk: the cleanup of the other conversion has not removed them.
C26_DisjointScratchDirs ==
    \A p \in Procs :
        /\ \A q \in Procs :
              (p # q /\ ParInFlight(p) /\ ParInFlight(q)) => ParDir(p) # ParDir(q)
        /\ ppc[p] = "walk" =>
              \A i \in pidx[p]..Len(plist[p]) :
                  PathJoin(ParDir(p), plist[p][i]) \in pfiles

\* ------------------------------------------------------------------------
\* The options a converter receives: top-level request and archive entry
\* ------------------------------------------------------------------------

\* the instance and the request: whether llmCall and styleMap were given
\* to the constructor, whether the request carries a Wikipedia url
BagConfigs == [llmCall : BOOLEAN, styleMap : BOOLEAN, url : BOOLEAN]

\* the files: the converter that takes each of them
BagFiles == {"text", "image", "audio", "docx", "wiki"}

\* the extension of a file of each kind
BagExt(file) ==
    CASE file = "text" -> DotTxt
      [] file = "image" -> DotPng
      [] file = "audio" -> DotMp3
      [] file = "docx" -> <<".", "d", "o", "c", "x">>
      [] file = "wiki" -> DotHtml

\* MarkItDown.convert sets parentConverters, requestsSession, llmCall and
\* styleMap on the caller's options; _convert passes
\* { ...options, fileExtension: ext }
TopLevelOptions(cfg, ext) ==
    [fileExtension |-> ext, parentConverters |-> TRUE, requestsSession |-> TRUE,
     llmCall |-> cfg.llmCall, styleMap |-> cfg.styleMap, url |-> cfg.url]

\* processDirectory passes { fileExtension: fileExt, parentConverters }
EntryOptions(ext) ==
    [fileExtension |-> ext, parentConverters |-> TRUE, requestsSession |-> FALSE,
     llmCall |-> FALSE, styleMap |-> FALSE, url |-> FALSE]

\* the text the file's converter builds from the options it is given:
\* the image converter adds the description, the audio converter the
\* transcript when llmCall is a function; mammoth is given the styleMap;
\* WikipediaConverter returns null without a Wikipedia url and the generic
\* HTML converter takes the file
ConvertWith(file, options) ==
    CASE file = "text" -> [kind |-> "text", parts |-> <<"text">>]
      [] file = "image" ->
            [kind |-> "image",
             parts |-> <<"metadata">> \o
                       (IF options.llmCall THEN <<"# Description:", "caption">> ELSE <<>>)]
      [] file = "audio" ->
            [kind |-> "audio",
             parts |-> <<"metadata", "### Audio Transcript:">> \o
                       (IF options.llmCall THEN <<"words">> ELSE <<NoSpeech>>)]
      [] file = "docx" ->
            [kind |-> "docx",
             parts |-> IF options.styleMap THEN <<"html with styleMap">>
                       ELSE <<"html">>]
      [] file = "wiki" ->
            IF options.url
            THEN [kind |-> "wikipedia", parts |-> <<"title", "toc", "sections">>]
            ELSE [kind |-> "html", parts |-> <<"body">>]

\* everything but the two conversions of the file
bframe == <<cvars, mvars, wvars, yvars, evars, svars, pvars>>

InitBag ==
    /\ CoreInit
    /\ MdIdle
    /\ WikiIdle
    /\ YtIdle
    /\ MediaIdle
    /\ SrcIdle
    /\ ParIdle
    /\ BagIdle

\* convert(file, options): the file converted directly
BagConvertDirect(cfg, file) ==
    /\ bpc = "idle"
    /\ bcfg' = cfg
    /\ bfile' = file
    /\ bopts' = TopLevelOptions(cfg, BagExt(file))
    /\ bdirect' = ConvertWith(file, TopLevelOptions(cfg, BagExt(file)))
    /\ bpc' = "direct"
    /\ UNCHANGED bentry
    /\ UNCHANGED bframe

\* convert(archive, options) on an archive that holds the file:
\* ZipConverter.convert is called with the options of the request
BagConvertArchive ==
    /\ bpc = "direct"
    /\ bopts' = TopLevelOptions(bcfg, DotZip)
    /\ bpc' = "archive"
    /\ UNCHANGED <<bcfg, bfile, bdirect, bentry>>
    /\ UNCHANGED bframe

\* processDirectory: converter.convert(filePath, { fileExtension, parentConverters })
BagEntry ==
    /\ bpc = "archive"
    /\ bopts' = EntryOptions(BagExt(bfile))
    /\ bentry' = ConvertWith(bfile, EntryOptions(BagExt(bfile)))
    /\ bpc' = "done"
    /\ UNCHANGED <<bcfg, bfile, bdirect>>
    /\ UNCHANGED bframe

\* both texts are with the caller
BagFinish ==
    /\ bpc = "done"
    /\ bpc' = "idle"
    /\ bcfg' = NoBagCfg
    /\ bfile' = "none"
    /\ bopts' = NoOptions
    /\ bdirect' = NoText
    /\ bentry' = NoText
    /\ UNCHANGED bframe

NextBag ==
    \/ \E cfg \in BagConfigs, file \in BagFiles : BagConvertDirect(cfg, file)
    \/ BagConvertArchive
    \/ BagEntry
    \/ BagFinish

SpecBag == InitBag /\ [][NextBag]_vars

\* C30: the text of a file converted as an entry of an archive equals the
\* text the same instance, with the same request options, produces when the
\* file is converted directly.
C30_EntryTextEqualsDirectText ==
    bpc = "done" => bentry = bdirect

====
